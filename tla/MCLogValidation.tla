----------------------------- MODULE MCLogValidation -----------------------------
(* Files for LogValidation: any combination of metadata cells, with tables that   *)
(* are sound, have bad cells in one or two rows, lack headers, or have no schema. *)
EXTENDS LogValidation

Table(schema, missing, rows) == [schema |-> schema, missing |-> missing, rows |-> rows]

MCTables == {
    Table(TRUE, 0, <<0, 2, 1>>),
    Table(TRUE, 2, <<1>>),
    Table(FALSE, 1, <<1>>) }
================================================================================
