----------------------------- MODULE MCWasteRecords -----------------------------
(* Small files for WasteRecords: the first upload of a row, the same row with    *)
(* another weight, with a blank and a missing one, without the weight column, a  *)
(* row twice, a number for an id, and files that fail in the transformation or   *)
(* halfway through the save.  "seven" stands for the number that prints like the *)
(* text "7", "monday" for a Date object, "tuesday" for a date kept as text and   *)
(* "zero" for 0.                                                                 *)
EXTENDS WasteRecords

Row(id, date, weight) ==
    [id |-> id, cells |-> [f \in Fields |-> IF f = DateField THEN date ELSE weight]]
File(type, columns, rows) == [type |-> type, columns |-> columns, rows |-> rows]
Input(rows) == File("REPROCESSOR_INPUT", Fields, rows)

MCContents == {
    Input(<<Row("a", "monday", "light")>>),
    Input(<<Row("a", "tuesday", "heavy"), Row("7", "tuesday", "light")>>),
    Input(<<Row("a", "tuesday", Null), Row("seven", "tuesday", "heavy")>>),
    File("REPROCESSOR_OUTPUT", {DateField}, <<Row("a", "tuesday", "light")>>),
    Input(<<Row("7", "monday", "light"), Row("a", "monday", "heavy"), Row("a", "tuesday", Undefined)>>),
    Input(<<Row("a", "tuesday", "heavy"), Row(NoId, "monday", "light")>>),
    Input(<<Row("a", "zero", "heavy")>>),
    File("EXPORTER", Fields, <<Row("a", "monday", "heavy")>>),
    File("unknown", Fields, <<Row("a", "monday", "heavy")>>) }

MCRowIds == {"a", "7"}
MCNumericIds == {"seven"}
MCPrinted == [n \in MCNumericIds |-> "7"]
MCFields == {"date", "weight"}
MCValues == {"monday", "tuesday", "zero", "light", "heavy"}
MCObjects == {"monday"}
MCZeros == {"zero"}
================================================================================
