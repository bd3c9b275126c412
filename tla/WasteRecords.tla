------------------------------ MODULE WasteRecords ------------------------------
(***************************************************************************)
(* Waste records of one registration and the sync of summary logs into     *)
(* them: parse the file, load the registration's records, turn each row of *)
(* the file into a new, changed or unchanged record, save them all.  The   *)
(* awaits of the sync separate its actions, so two syncs may interleave;   *)
(* the transformation and the in-memory repository's loop run in one go.   *)
(* Records of other registrations and types have keys of their own and are *)
(* never touched, so one registration and the one type the code produces   *)
(* are modelled.                                                           *)
(***************************************************************************)
EXTENDS Integers, Sequences, FiniteSets

CONSTANTS
    Syncs,        \* calls of the sync
    RowIds,       \* ROW_ID cells that hold a string
    NumericIds,   \* ROW_ID cells that hold a number
    Printed,      \* Printed[n]: the text of the number n
    NoId,         \* a ROW_ID cell that holds nothing, 0 or an empty text
    Fields,       \* the columns of a row besides ROW_ID
    DateField,    \* DATE_RECEIVED_FOR_REPROCESSING
    Values,       \* what a cell may hold
    Objects,      \* the values that are objects: dates, rich text, hyperlinks, errors
    Zeros,        \* the values a condition takes for false: 0, FALSE, an empty text
    Null,         \* a blank cell
    Undefined,    \* no cell: the row is cut short, or the column is missing
    Contents,     \* the parsed files that may be synced
    AtOnce        \* how many syncs may overlap

CellValues == Values \cup {Null, Undefined}
Cells == [Fields -> CellValues]
Ids == RowIds \cup NumericIds \cup {NoId}
ProcessingTypes == {"REPROCESSOR_INPUT", "REPROCESSOR_OUTPUT", "EXPORTER", "none", "unknown"}

ASSUME FieldsAssumption == DateField \in Fields
ASSUME ValuesAssumption == Objects \subseteq Values /\ Zeros \subseteq Values
ASSUME NothingAssumption == Null # Undefined /\ {Null, Undefined} \cap Values = {}
ASSUME IdsAssumption ==
    /\ RowIds \cap NumericIds = {} /\ NoId \notin RowIds \cup NumericIds
    /\ Printed \in [NumericIds -> RowIds]
ASSUME AtOnceAssumption == AtOnce \in Nat \ {0}
ASSUME ContentsAssumption ==
    \A c \in Contents :
        /\ c.type \in ProcessingTypes /\ c.columns \subseteq Fields
        /\ c.rows \in Seq([id : Ids, cells : Cells])

VARIABLES
    records,  \* records[id]: the stored record of row id
    content,  \* content[s]: the parsed file of sync s (never changes)
    pc,       \* pc[s]: where sync s is
    loaded    \* loaded[s]: the records it loaded

vars == <<records, content, pc, loaded>>

Deltas == UNION {[fs -> CellValues] : fs \in SUBSET Fields}
Versions == [status : {"created", "updated"}, sync : Syncs, data : Deltas]
Records == [data : Cells, versions : Seq(Versions)]
NoRecord == [data |-> [f \in Fields |-> Undefined], versions |-> <<>>]

TypeOK ==
    /\ records \in [RowIds -> Records]
    /\ content \in [Syncs -> Contents]
    /\ pc \in [Syncs -> {"idle", "extract", "load", "save", "done", "failed"}]
    /\ loaded \in [Syncs -> [RowIds -> Records]]

Init ==
    /\ records = [id \in RowIds |-> NoRecord]
    /\ content \in [Syncs -> Contents]
    /\ pc = [s \in Syncs |-> "idle"]
    /\ loaded = [s \in Syncs |-> [id \in RowIds |-> NoRecord]]
--------------------------------------------------------------------------------
(* transform-from-summary-log.js *)

\* The rows that have a transformer; the other processing types yield none.
Rows(c) ==
    IF c.type \in {"REPROCESSOR_INPUT", "REPROCESSOR_OUTPUT"} THEN c.rows ELSE <<>>

Cell(c, row, f) == IF f \in c.columns THEN row.cells[f] ELSE Undefined
RowData(c, row) == [f \in Fields |-> Cell(c, row, f)]

\* An unknown type, or a row without its required cells, fails the whole sync.
Throws(c) ==
    \/ c.type = "unknown"
    \/ \E i \in DOMAIN Rows(c) :
        Rows(c)[i].id = NoId \/ Cell(c, Rows(c)[i], DateField) \in Zeros \cup {Null, Undefined}

\* !== : null is not undefined, and no object is one that was read before.
Differs(old, new) == old # new \/ new \in Objects

Delta(existing, c, row) ==
    LET changed == {f \in c.columns : Differs(existing.data[f], row.cells[f])}
    IN  [f \in changed |-> row.cells[f]]

\* Mutant: the status meant for changes the regulator has not approved.
VersionPending(status, s, data) == [status |-> "pending", sync |-> s, data |-> data]

Version(status, s, data) == [status |-> status, sync |-> s, data |-> data]

Created(s, c, row) ==
    [data |-> RowData(c, row),
     versions |-> <<Version("created", s, [f \in c.columns |-> row.cells[f]])>>]

\* Mutant: the versions are replaced.
UpdatedForgets(existing, s, c, row) ==
    [data |-> RowData(c, row),
     versions |-> <<Version("updated", s, Delta(existing, c, row))>>]

\* Mutant: the record's own data is left as it was.
UpdatedKeepsData(existing, s, c, row) ==
    [existing EXCEPT !.versions = Append(@, Version("updated", s, Delta(existing, c, row)))]

Updated(existing, s, c, row) ==
    [data |-> RowData(c, row),
     versions |-> Append(existing.versions, Version("updated", s, Delta(existing, c, row)))]

\* Mutant: an unchanged row is a change too.
TransformRowAlways(existing, s, c, row) ==
    IF existing = NoRecord THEN Created(s, c, row) ELSE Updated(existing, s, c, row)

\* What transformTable returns for a row.
TransformRow(existing, s, c, row) ==
    IF existing = NoRecord THEN Created(s, c, row)
    ELSE IF DOMAIN Delta(existing, c, row) = {} THEN existing
    ELSE Updated(existing, s, c, row)
--------------------------------------------------------------------------------
(* upsertWasteRecords: one record after the other, up to the first that the   *)
(* schema refuses, for a rowId that is not a string.                          *)

\* The key of a row prints its id.
Key(id) == IF id \in NumericIds THEN Printed[id] ELSE id

\* A number that prints like the rowId of a loaded record keeps that rowId;
\* otherwise the number becomes the rowId of a new record.
Refused(s, rows) ==
    {i \in DOMAIN rows : rows[i].id \in NumericIds /\ loaded[s][Key(rows[i].id)] = NoRecord}

Saved(s, rows) == {i \in DOMAIN rows : \A j \in Refused(s, rows) : i < j}

LastSaved(s, rows, id) ==
    CHOOSE i \in Saved(s, rows) :
        Key(rows[i].id) = id /\ \A j \in Saved(s, rows) : Key(rows[j].id) = id => j <= i

Upsert(s, rows) ==
    records' = [id \in RowIds |->
        IF \E i \in Saved(s, rows) : Key(rows[i].id) = id
        THEN TransformRow(loaded[s][id], s, content[s], rows[LastSaved(s, rows, id)])
        ELSE records[id]]
--------------------------------------------------------------------------------
(* sync-from-summary-log.js *)

InFlight == {s \in Syncs : pc[s] \in {"extract", "load", "save"}}
Goto(s, place) == pc' = [pc EXCEPT ![s] = place]

\* A sync is asked for; AtOnce bounds how many overlap (the code has no bound).
Start(s) ==
    /\ pc[s] = "idle"
    /\ Cardinality(InFlight) < AtOnce
    /\ Goto(s, "extract")
    /\ UNCHANGED <<records, content, loaded>>

\* The file may be gone or unreadable.
Extract(s) ==
    /\ pc[s] = "extract"
    /\ Goto(s, "load") \/ Goto(s, "failed")
    /\ UNCHANGED <<records, content, loaded>>

\* findByRegistration
Load(s) ==
    /\ pc[s] = "load"
    /\ loaded' = [loaded EXCEPT ![s] = records]
    /\ Goto(s, "save")
    /\ UNCHANGED <<records, content>>

TransformFails(s) ==
    /\ pc[s] = "save"
    /\ Throws(content[s])
    /\ Goto(s, "failed")
    /\ UNCHANGED <<records, content, loaded>>

Save(s) ==
    /\ pc[s] = "save"
    /\ ~Throws(content[s])
    /\ Upsert(s, Rows(content[s]))
    /\ Goto(s, IF Refused(s, Rows(content[s])) = {} THEN "done" ELSE "failed")
    /\ UNCHANGED <<content, loaded>>

Next == \E s \in Syncs : Start(s) \/ Extract(s) \/ Load(s) \/ TransformFails(s) \/ Save(s)

Spec == Init /\ [][Next]_vars
--------------------------------------------------------------------------------
(* Correctness *)

Mentions(versions, f) == {i \in DOMAIN versions : f \in DOMAIN versions[i].data}

\* What the versions give a field when they are applied in turn.
Replayed(versions, f) ==
    LET mentions == Mentions(versions, f)
    IN  IF mentions = {} THEN Undefined
        ELSE versions[CHOOSE i \in mentions : \A j \in mentions : j <= i].data[f]

\* A version after the last one that mentions the field is from a file without it.
Dropped(versions, f) ==
    \E i \in DOMAIN versions :
        /\ \A j \in Mentions(versions, f) : j < i
        /\ f \notin content[versions[i].sync].columns

\* What the versions give a field together with the columns of the files they came
\* from: an update from a file without a column takes the field out of the data.
Given(versions, f) == IF Dropped(versions, f) THEN Undefined ELSE Replayed(versions, f)

Explained(record) ==
    /\ \A i \in DOMAIN record.versions :
        /\ (record.versions[i].status = "created") <=> (i = 1)
        /\ i > 1 => DOMAIN record.versions[i].data # {}
    /\ \A f \in Fields : record.data[f] = Given(record.versions, f)

\* The versions of a record explain its data, also when syncs overlap and rows are
\* repeated in a file: the first version created it, the others updated it, each
\* changed something, and every field of the data is exactly what the versions and
\* the columns of their files give it, a value or nothing (transformTable).  The
\* versions alone do not: nothing in a version says that its file had left a column
\* out, so that applied in turn they still give the field its older value.
\* ROW_ID, which no update mentions, is not among the fields.
VersionsExplainData == \A id \in RowIds : Explained(records[id])

IsPrefix(s, t) == Len(s) <= Len(t) /\ SubSeq(t, 1, Len(s)) = s

\* A sync in its turn: it saves over what it loaded.
Undisturbed(s) == pc[s] = "save" /\ pc'[s] # "save" /\ loaded[s] = records

\* Syncs that take turns never rewrite a version history: the `created` version
\* stays the first and each update follows the earlier ones, also when a save fails
\* halfway or a file repeats a row.  (Without a turn of its own a sync replaces what
\* another one saved since it loaded: nothing in upsertWasteRecords compares.)
HistoryGrowsInTurn ==
    [][\A s \in Syncs : Undisturbed(s) =>
        \A id \in RowIds : IsPrefix(records[id].versions, records'[id].versions)]_vars

Changed(id, f) == records'[id].data[f] # records[id].data[f]

\* A sync in its turn adds a version to a record only when the value stored for one
\* of its fields changed, a blank cell that became a missing one or the reverse
\* included, or when a field holds an object, which !== takes for another one each
\* time it is read; whatever else the file holds, which rows it repeats and where
\* the save stops (transformTable).
NoVersionWithoutChange ==
    [][\A s \in Syncs : Undisturbed(s) =>
        \A id \in RowIds : records'[id].versions # records[id].versions =>
            \E f \in Fields : Changed(id, f) \/ records'[id].data[f] \in Objects]_vars
--------------------------------------------------------------------------------
(* The invariant of the proofs *)

\* What a sync saves over what it loaded is explained when what it loaded was.
IInv ==
    /\ TypeOK
    /\ VersionsExplainData
    /\ \A s \in Syncs, id \in RowIds : Explained(loaded[s][id])
================================================================================
