--------------------------- MODULE WasteRecordsProofs ---------------------------
(***************************************************************************)
(* Proofs about WasteRecords, for any number of syncs, files and rows: the *)
(* versions of a record explain its data however syncs overlap, and a sync *)
(* in its turn neither rewrites a history nor adds a version for nothing.  *)
(***************************************************************************)
EXTENDS WasteRecords, LeastNumber, SequenceTheorems, TLAPS
--------------------------------------------------------------------------------
(* What the transformation makes of a row *)

\* A row that the transformation sees.
IsRow(c, row) == \E i \in DOMAIN Rows(c) : row = Rows(c)[i]

LEMMA RowsAreRows ==
    ASSUME NEW c \in Contents
    PROVE  /\ c.columns \subseteq Fields
           /\ Rows(c) \in Seq([id : Ids, cells : Cells])
<1>1. <<>> \in Seq([id : Ids, cells : Cells])
  OBVIOUS
<1> QED BY <1>1, ContentsAssumption DEF Rows

LEMMA RowHasCells ==
    ASSUME NEW c \in Contents, NEW row, IsRow(c, row)
    PROVE  row.cells \in Cells /\ RowData(c, row) \in Cells
<1>1. row \in [id : Ids, cells : Cells]
  <2>1. PICK i \in DOMAIN Rows(c) : row = Rows(c)[i]
    BY DEF IsRow
  <2>2. PICK rows : rows = Rows(c)
    OBVIOUS
  <2>3. rows \in Seq([id : Ids, cells : Cells])
    BY <2>2, RowsAreRows
  <2>4. row = rows[i] /\ i \in DOMAIN rows
    BY <2>1, <2>2
  <2>5. PICK T : T = [id : Ids, cells : Cells]
    OBVIOUS
  <2>6. row \in T
    <3>1. rows \in Seq(T)
      BY <2>3, <2>5
    <3> QED BY <2>4, <3>1
  <2> QED BY <2>5, <2>6
<1>2. row.cells \in [Fields -> CellValues]
  BY <1>1 DEF Cells
<1>3. Undefined \in CellValues
  BY DEF CellValues
<1> QED BY <1>2, <1>3 DEF Cells, RowData, Cell

\* A delta and the columns of a row are deltas.
LEMMA PartsAreDeltas ==
    ASSUME NEW cells \in Cells, NEW fs \in SUBSET Fields
    PROVE  [f \in fs |-> cells[f]] \in Deltas
<1>1. [f \in fs |-> cells[f]] \in [fs -> CellValues]
  BY DEF Cells
<1> QED BY <1>1 DEF Deltas

\* The last version that mentions a field gives it its value.
LEMMA ReplayedIs ==
    ASSUME NEW versions, DOMAIN versions \in SUBSET Nat, NEW f, NEW i \in Mentions(versions, f),
           \A j \in Mentions(versions, f) : j <= i
    PROVE  Replayed(versions, f) = versions[i].data[f]
<1> DEFINE last == CHOOSE k \in Mentions(versions, f) : \A j \in Mentions(versions, f) : j <= k
<1>1. last \in Mentions(versions, f) /\ \A j \in Mentions(versions, f) : j <= last
  OBVIOUS
<1>2. last <= i /\ i <= last /\ last \in Nat /\ i \in Nat
  BY <1>1 DEF Mentions
<1>3. last = i
  BY <1>2
<1>4. Replayed(versions, f) = versions[last].data[f]
  BY DEF Replayed
<1> QED BY <1>3, <1>4

LEMMA ReplayedNothing ==
    ASSUME NEW versions, NEW f, Mentions(versions, f) = {}
    PROVE  Given(versions, f) = Undefined
<1> QED BY DEF Replayed, Given

\* A record without versions is no record.
LEMMA NoVersionsNoRecord ==
    ASSUME NEW record \in Records, Explained(record), record.versions = <<>>
    PROVE  record = NoRecord
<1>1. \A f \in Fields : Mentions(record.versions, f) = {}
  BY DEF Mentions
<1>2. \A f \in Fields : record.data[f] = Undefined
  BY <1>1, ReplayedNothing DEF Explained
<1>3. record.data = [f \in Fields |-> Undefined]
  BY <1>2 DEF Records, Cells
<1> QED BY <1>3 DEF Records, NoRecord

LEMMA CreatedIsExplained ==
    ASSUME NEW s \in Syncs, NEW c \in Contents, NEW row, IsRow(c, row)
    PROVE  Created(s, c, row) \in Records /\ Explained(Created(s, c, row))
<1> DEFINE record == Created(s, c, row)
           delta == [f \in c.columns |-> row.cells[f]]
           version == [status |-> "created", sync |-> s, data |-> delta]
<1>1. row.cells \in Cells /\ RowData(c, row) \in Cells /\ c.columns \in SUBSET Fields
  BY RowHasCells, RowsAreRows
<1>2. delta \in Deltas
  BY <1>1, PartsAreDeltas
<1>3. record = [data |-> RowData(c, row), versions |-> <<version>>]
  BY DEF Created, Version
<1>4. version \in Versions
  <2> HIDE DEF delta
  <2> QED BY <1>2 DEF Versions
<1> HIDE DEF record
<1>5. record \in Records
  <2> HIDE DEF version
  <2> QED BY <1>1, <1>3, <1>4 DEF Records
<1>6. /\ record.versions = <<version>> /\ DOMAIN record.versions = {1}
      /\ record.versions[1].status = "created" /\ record.versions[1].data = delta
      /\ record.data = RowData(c, row)
  BY <1>3
<1>7. ASSUME NEW f \in Fields
      PROVE  record.data[f] = Given(record.versions, f)
  <2>1. CASE f \in c.columns
    <3>1. record.data[f] = row.cells[f] /\ delta[f] = row.cells[f] /\ f \in DOMAIN delta
      BY <1>6, <2>1 DEF RowData, Cell
    <3>2. Mentions(record.versions, f) = {1}
      BY <1>6, <3>1 DEF Mentions
    <3>3. Replayed(record.versions, f) = record.versions[1].data[f]
      BY <1>6, <3>2, ReplayedIs
    <3>4. ~Dropped(record.versions, f)
      BY <1>6, <3>2 DEF Dropped
    <3> QED BY <1>6, <3>1, <3>3, <3>4 DEF Given
  <2>2. CASE f \notin c.columns
    <3>1. record.data[f] = Undefined /\ f \notin DOMAIN delta
      BY <1>6, <2>2 DEF RowData, Cell
    <3>2. Mentions(record.versions, f) = {}
      BY <1>6, <3>1 DEF Mentions
    <3> QED BY <3>1, <3>2, ReplayedNothing
  <2> QED BY <2>1, <2>2
<1>8. \A i \in DOMAIN record.versions :
        /\ (record.versions[i].status = "created") <=> (i = 1)
        /\ i > 1 => DOMAIN record.versions[i].data # {}
  BY <1>6
<1>9. Explained(record)
  BY <1>7, <1>8 DEF Explained
<1> QED BY <1>5, <1>9 DEF record

\* The fields of a delta are those of the columns that differ.
IsDelta(delta, old, new, columns) ==
    /\ delta \in Deltas
    /\ \A f \in DOMAIN delta :
        f \in Fields /\ delta[f] = new[f] /\ (delta[f] # old[f] \/ delta[f] \in Objects)
    /\ \A f \in Fields \ DOMAIN delta :
        IF f \in columns THEN new[f] = old[f] ELSE new[f] = Undefined

LEMMA DeltaFacts ==
    ASSUME NEW existing \in Records, NEW c \in Contents, NEW row, IsRow(c, row)
    PROVE  IsDelta(Delta(existing, c, row), existing.data, RowData(c, row), c.columns)
<1>0. PICK delta : delta = Delta(existing, c, row)
  OBVIOUS
<1> DEFINE changed == {f \in c.columns : Differs(existing.data[f], row.cells[f])}
<1>1. row.cells \in Cells /\ c.columns \in SUBSET Fields
  BY RowHasCells, RowsAreRows
<1>2. delta = [f \in changed |-> row.cells[f]] /\ changed \in SUBSET Fields
  BY <1>0, <1>1 DEF Delta
<1>3. delta \in Deltas
  BY <1>1, <1>2, PartsAreDeltas
<1>4. DOMAIN delta = changed
  BY <1>2
<1>5. \A f \in c.columns : RowData(c, row)[f] = row.cells[f]
  BY <1>1 DEF RowData, Cell
<1>6. \A f \in Fields \ c.columns : RowData(c, row)[f] = Undefined
  BY DEF RowData, Cell
<1>7. \A f \in changed : delta[f] = row.cells[f]
  BY <1>2
<1>8. IsDelta(delta, existing.data, RowData(c, row), c.columns)
  BY <1>1, <1>3, <1>4, <1>5, <1>6, <1>7 DEF Differs, IsDelta
<1> QED BY <1>0, <1>8

LEMMA UpdatedIsExplained ==
    ASSUME NEW existing \in Records, Explained(existing), existing # NoRecord,
           NEW s \in Syncs, NEW c \in Contents, c = content[s], NEW row, IsRow(c, row),
           DOMAIN Delta(existing, c, row) # {}
    PROVE  Updated(existing, s, c, row) \in Records /\ Explained(Updated(existing, s, c, row))
<1> DEFINE record == Updated(existing, s, c, row)
           old == existing.versions
           n == Len(old)
<1>0. PICK delta : delta = Delta(existing, c, row)
  OBVIOUS
<1> DEFINE version == [status |-> "updated", sync |-> s, data |-> delta]
<1>1. RowData(c, row) \in Cells
  BY RowHasCells
<1>2. /\ delta \in Deltas
      /\ \A f \in DOMAIN delta : delta[f] = RowData(c, row)[f]
      /\ \A f \in Fields \ DOMAIN delta :
          IF f \in c.columns THEN RowData(c, row)[f] = existing.data[f]
          ELSE RowData(c, row)[f] = Undefined
  <2>1. IsDelta(delta, existing.data, RowData(c, row), c.columns)
    BY <1>0, DeltaFacts
  <2> QED BY <2>1 DEF IsDelta
<1>3. record = [data |-> RowData(c, row), versions |-> Append(old, version)]
  BY <1>0 DEF Updated, Version
<1>4. DOMAIN delta # {}
  BY <1>0
<1> HIDE DEF record
<1>5. version \in Versions
  BY <1>2 DEF Versions
<1>6. old \in Seq(Versions) /\ n \in Nat /\ n > 0
  <2>1. old \in Seq(Versions) /\ old # <<>>
    BY NoVersionsNoRecord DEF Records
  <2> QED BY <2>1
<1>7. version.status = "updated" /\ version.data = delta /\ version.sync = s
  OBVIOUS
<1> HIDE DEF version
<1>8. record.versions = Append(old, version) /\ record.data = RowData(c, row)
  BY <1>3
<1>9. record \in Records
  <2>1. Append(old, version) \in Seq(Versions)
    BY <1>5, <1>6
  <2> QED BY <1>1, <1>3, <2>1 DEF Records
<1> HIDE DEF old
<1>10. /\ DOMAIN old = 1..n /\ DOMAIN record.versions = 1..(n + 1)
       /\ \A i \in 1..n : record.versions[i] = old[i]
       /\ record.versions[n + 1] = version
  BY <1>5, <1>6, <1>8, AppendProperties
<1>11. \A i \in DOMAIN record.versions :
        /\ (record.versions[i].status = "created") <=> (i = 1)
        /\ i > 1 => DOMAIN record.versions[i].data # {}
  <2> SUFFICES ASSUME NEW i \in 1..(n + 1)
               PROVE  /\ (record.versions[i].status = "created") <=> (i = 1)
                      /\ i > 1 => DOMAIN record.versions[i].data # {}
    BY <1>10
  <2>1. CASE i \in 1..n
    <3>1. record.versions[i] = old[i] /\ i \in DOMAIN old
      BY <1>10, <2>1
    <3> QED BY <3>1 DEF Explained, old
  <2>2. CASE i = n + 1
    BY <1>4, <1>6, <1>7, <1>10, <2>2
  <2> QED BY <1>6, <2>1, <2>2
<1>12. ASSUME NEW f \in Fields
       PROVE  record.data[f] = Given(record.versions, f)
  <2>1. record.data[f] = RowData(c, row)[f]
    BY <1>8
  <2>2. CASE f \in DOMAIN delta
    <3>1. n + 1 \in Mentions(record.versions, f)
      BY <1>6, <1>7, <1>10, <2>2 DEF Mentions
    <3>2. \A j \in Mentions(record.versions, f) : j <= n + 1
      BY <1>6, <1>10 DEF Mentions
    <3>3. record.versions[n + 1].data[f] = record.data[f]
      BY <1>2, <1>7, <1>10, <2>1, <2>2
    <3>4. DOMAIN record.versions \in SUBSET Nat
      BY <1>6, <1>10
    <3>5. Replayed(record.versions, f) = record.data[f]
      BY <3>1, <3>2, <3>3, <3>4, ReplayedIs
    <3>6. ~Dropped(record.versions, f)
      BY <1>6, <1>10, <3>1 DEF Dropped
    <3> QED BY <3>5, <3>6 DEF Given
  <2>3. CASE f \notin DOMAIN delta
    <3>1. Mentions(record.versions, f) = Mentions(old, f)
      <4>1. \A j \in Mentions(record.versions, f) : j \in 1..(n + 1) /\ j # n + 1
        BY <1>6, <1>7, <1>10, <2>3 DEF Mentions
      <4>2. \A j \in Mentions(record.versions, f) : j \in Mentions(old, f)
        BY <1>6, <1>10, <4>1 DEF Mentions
      <4>3. \A j \in Mentions(old, f) : j \in Mentions(record.versions, f)
        BY <1>6, <1>10 DEF Mentions
      <4> QED BY <4>2, <4>3
    <3>2. \A j \in Mentions(old, f) : j \in 1..n
      BY <1>10 DEF Mentions
    <3>3. CASE f \notin c.columns
      <4>1. record.data[f] = Undefined
        BY <1>2, <2>1, <2>3, <3>3
      <4>2. n + 1 \in DOMAIN record.versions /\ record.versions[n + 1].sync = s
        BY <1>6, <1>7, <1>10
      <4>3. \A j \in Mentions(record.versions, f) : j < n + 1
        BY <1>6, <3>1, <3>2
      <4>4. Dropped(record.versions, f)
        BY <3>3, <4>2, <4>3 DEF Dropped
      <4> QED BY <4>1, <4>4 DEF Given
    <3>4. CASE f \in c.columns
      <4>1. record.data[f] = existing.data[f]
        BY <1>2, <2>1, <2>3, <3>4
      <4>2. existing.data[f] = Given(old, f)
        BY DEF Explained, old
      <4>3. Replayed(record.versions, f) = Replayed(old, f)
        <5>1. CASE Mentions(old, f) = {}
          BY <3>1, <5>1 DEF Replayed
        <5>2. CASE Mentions(old, f) # {}
          <6>1. PICK i \in Mentions(old, f) : \A j \in Mentions(old, f) : j <= i
            <7>1. PICK S : S = Mentions(old, f)
              OBVIOUS
            <7>2. S \in SUBSET (1..n) /\ S # {}
              BY <3>2, <5>2, <7>1
            <7>3. \E i \in S : \A j \in S : j <= i
              BY <1>6, <7>2, GreatestOf
            <7> QED BY <7>1, <7>3
          <6>2. Replayed(old, f) = old[i].data[f]
            BY <1>6, <1>10, <6>1, ReplayedIs
          <6>3. Replayed(record.versions, f) = record.versions[i].data[f]
            <7>1. DOMAIN record.versions \in SUBSET Nat
              BY <1>6, <1>10
            <7> QED BY <3>1, <6>1, <7>1, ReplayedIs
          <6>4. record.versions[i] = old[i]
            BY <1>10, <3>2, <6>1
          <6> QED BY <6>2, <6>3, <6>4
        <5> QED BY <5>1, <5>2
      <4>4. Dropped(old, f) => Dropped(record.versions, f)
        <5> SUFFICES ASSUME NEW i \in 1..n, \A j \in Mentions(old, f) : j < i,
                            f \notin content[old[i].sync].columns
                     PROVE  Dropped(record.versions, f)
          BY <1>10 DEF Dropped
        <5>1. i \in DOMAIN record.versions /\ record.versions[i] = old[i]
          BY <1>6, <1>10
        <5> QED BY <3>1, <5>1 DEF Dropped
      <4>5. Dropped(record.versions, f) => Dropped(old, f)
        <5> SUFFICES ASSUME NEW i \in 1..(n + 1), \A j \in Mentions(record.versions, f) : j < i,
                            f \notin content[record.versions[i].sync].columns
                     PROVE  Dropped(old, f)
          BY <1>10 DEF Dropped
        <5>1. i # n + 1
          BY <1>7, <1>10, <3>4
        <5>2. i \in 1..n
          BY <1>6, <5>1
        <5> QED BY <1>10, <3>1, <5>2 DEF Dropped
      <4> QED BY <4>1, <4>2, <4>3, <4>4, <4>5 DEF Given
    <3> QED BY <3>3, <3>4
  <2> QED BY <2>2, <2>3
<1>13. Explained(record)
  BY <1>11, <1>12 DEF Explained
<1> QED BY <1>9, <1>13 DEF record

\* What a sync saves for a row is a record that its versions explain.
LEMMA TransformRowIsExplained ==
    ASSUME NEW existing \in Records, Explained(existing),
           NEW s \in Syncs, NEW c \in Contents, c = content[s], NEW row, IsRow(c, row)
    PROVE  /\ TransformRow(existing, s, c, row) \in Records
           /\ Explained(TransformRow(existing, s, c, row))
<1>1. CASE existing = NoRecord
  BY <1>1, CreatedIsExplained DEF TransformRow
<1>2. CASE existing # NoRecord /\ DOMAIN Delta(existing, c, row) = {}
  BY <1>2 DEF TransformRow
<1>3. CASE existing # NoRecord /\ DOMAIN Delta(existing, c, row) # {}
  BY <1>3, UpdatedIsExplained DEF TransformRow
<1> QED BY <1>1, <1>2, <1>3

\* The row that decides what is saved for an id.
LEMMA LastSavedIsSaved ==
    ASSUME NEW T, NEW rows \in Seq(T), NEW s, NEW id,
           \E i \in Saved(s, rows) : Key(rows[i].id) = id
    PROVE  LastSaved(s, rows, id) \in DOMAIN rows
<1> DEFINE S == {i \in Saved(s, rows) : Key(rows[i].id) = id}
<1>1. Len(rows) \in Nat /\ S \in SUBSET (1..Len(rows)) /\ S # {}
  BY DEF Saved
<1> HIDE DEF S
<1>2. PICK i \in S : \A j \in S : j <= i
  BY <1>1, GreatestOf
<1>3. /\ i \in Saved(s, rows) /\ Key(rows[i].id) = id
      /\ \A j \in Saved(s, rows) : Key(rows[j].id) = id => j <= i
  BY <1>2 DEF S
<1>4. LastSaved(s, rows, id) \in Saved(s, rows)
  BY <1>3 DEF LastSaved
<1> QED BY <1>4 DEF Saved

\* A save leaves a record alone or transforms a row into it.
LEMMA SaveTransforms ==
    ASSUME TypeOK, NEW s \in Syncs, Save(s), NEW id \in RowIds
    PROVE  \/ records'[id] = records[id]
           \/ \E row : /\ IsRow(content[s], row)
                      /\ records'[id] = TransformRow(loaded[s][id], s, content[s], row)
<1>1. PICK rows : rows = Rows(content[s])
  OBVIOUS
<1>2. rows \in Seq([id : Ids, cells : Cells])
  BY <1>1, RowsAreRows DEF TypeOK
<1>3. records' = [q \in RowIds |->
        IF \E i \in Saved(s, rows) : Key(rows[i].id) = q
        THEN TransformRow(loaded[s][q], s, content[s], rows[LastSaved(s, rows, q)])
        ELSE records[q]]
  BY <1>1 DEF Save, Upsert
<1>4. CASE \E i \in Saved(s, rows) : Key(rows[i].id) = id
  <2>1. LastSaved(s, rows, id) \in DOMAIN rows
    BY <1>2, <1>4, LastSavedIsSaved
  <2>2. records'[id] = TransformRow(loaded[s][id], s, content[s], rows[LastSaved(s, rows, id)])
    BY <1>3, <1>4
  <2>3. IsRow(content[s], rows[LastSaved(s, rows, id)])
    BY <1>1, <2>1 DEF IsRow
  <2> QED BY <2>2, <2>3
<1>5. CASE ~\E i \in Saved(s, rows) : Key(rows[i].id) = id
  BY <1>3, <1>5
<1> QED BY <1>4, <1>5

LEMMA SaveKeeps ==
    ASSUME IInv, NEW s \in Syncs, Save(s)
    PROVE  records' \in [RowIds -> Records] /\ \A id \in RowIds : Explained(records'[id])
<1>1. /\ TypeOK /\ content[s] \in Contents
      /\ \A id \in RowIds : /\ records[id] \in Records /\ Explained(records[id])
                            /\ loaded[s][id] \in Records /\ Explained(loaded[s][id])
  BY DEF IInv, TypeOK, VersionsExplainData
<1>2. ASSUME NEW id \in RowIds PROVE records'[id] \in Records /\ Explained(records'[id])
  <2>1. CASE records'[id] = records[id]
    BY <1>1, <2>1
  <2>2. CASE \E row : /\ IsRow(content[s], row)
                     /\ records'[id] = TransformRow(loaded[s][id], s, content[s], row)
    BY <1>1, <2>2, TransformRowIsExplained
  <2> QED BY <1>1, <2>1, <2>2, SaveTransforms
<1>3. records' = [id \in RowIds |-> records'[id]]
  BY DEF Save, Upsert
<1> QED BY <1>2, <1>3
--------------------------------------------------------------------------------
(* The invariant *)

LEMMA InitiallyIInv == Init => IInv
<1> SUFFICES ASSUME Init PROVE IInv
  OBVIOUS
<1>1. NoRecord \in Records
  BY DEF NoRecord, Records, Cells, CellValues
<1>2. Explained(NoRecord)
  <2>1. \A f \in Fields : Mentions(NoRecord.versions, f) = {}
    BY DEF Mentions, NoRecord
  <2>2. \A f \in Fields : Given(NoRecord.versions, f) = Undefined
    BY <2>1, ReplayedNothing
  <2> QED BY <2>2 DEF Explained, NoRecord
<1>3. /\ records \in [RowIds -> Records] /\ \A id \in RowIds : records[id] = NoRecord
      /\ loaded \in [Syncs -> [RowIds -> Records]]
      /\ \A s \in Syncs, id \in RowIds : loaded[s][id] = NoRecord
  BY <1>1 DEF Init
<1>4. TypeOK
  BY <1>3 DEF Init, TypeOK
<1> QED BY <1>2, <1>3, <1>4 DEF IInv, VersionsExplainData

\* The files of the syncs, which explain the records, stay what they are.
LEMMA StillExplained ==
    ASSUME content' = content, \A id \in RowIds : Explained(records'[id]),
           \A s \in Syncs, id \in RowIds : Explained(loaded'[s][id])
    PROVE  VersionsExplainData' /\ \A s \in Syncs, id \in RowIds : Explained(loaded[s][id])'
<1>1. ASSUME NEW id \in RowIds PROVE Explained(records[id])'
  BY <1>1 DEF Explained, Given, Dropped
<1>2. ASSUME NEW s \in Syncs, NEW id \in RowIds PROVE Explained(loaded[s][id])'
  BY <1>2 DEF Explained, Given, Dropped
<1> QED BY <1>1, <1>2 DEF VersionsExplainData

LEMMA NextKeeps == IInv /\ [Next]_vars => IInv'
<1> SUFFICES ASSUME IInv, [Next]_vars PROVE IInv'
  OBVIOUS
<1>1. /\ TypeOK /\ \A id \in RowIds : Explained(records[id])
      /\ \A s \in Syncs, id \in RowIds : Explained(loaded[s][id])
  BY DEF IInv, VersionsExplainData
<1>2. CASE UNCHANGED vars
  BY <1>1, <1>2, StillExplained DEF IInv, TypeOK, vars
<1>3. ASSUME NEW s \in Syncs, Start(s) \/ Extract(s) \/ TransformFails(s) PROVE IInv'
  <2>1. UNCHANGED <<records, content, loaded>>
    BY <1>3 DEF Start, Extract, TransformFails
  <2>2. pc' \in [Syncs -> {"idle", "extract", "load", "save", "done", "failed"}]
    BY <1>1, <1>3 DEF Start, Extract, TransformFails, Goto, TypeOK
  <2> QED BY <1>1, <2>1, <2>2, StillExplained DEF IInv, TypeOK
<1>4. ASSUME NEW s \in Syncs, Load(s) PROVE IInv'
  <2>1. /\ UNCHANGED <<records, content>> /\ loaded' = [loaded EXCEPT ![s] = records]
        /\ pc' \in [Syncs -> {"idle", "extract", "load", "save", "done", "failed"}]
    BY <1>1, <1>4 DEF Load, Goto, TypeOK
  <2>2. \A t \in Syncs, id \in RowIds :
          loaded'[t][id] = loaded[t][id] \/ loaded'[t][id] = records[id]
    BY <1>1, <2>1 DEF TypeOK
  <2>3. \A t \in Syncs, id \in RowIds : Explained(loaded'[t][id])
    BY <1>1, <2>2
  <2>4. TypeOK'
    BY <1>1, <2>1 DEF TypeOK
  <2> QED BY <1>1, <2>1, <2>3, <2>4, StillExplained DEF IInv
<1>5. ASSUME NEW s \in Syncs, Save(s) PROVE IInv'
  <2>1. records' \in [RowIds -> Records] /\ \A id \in RowIds : Explained(records'[id])
    BY <1>5, SaveKeeps
  <2>2. /\ UNCHANGED <<content, loaded>>
        /\ pc' \in [Syncs -> {"idle", "extract", "load", "save", "done", "failed"}]
    BY <1>1, <1>5 DEF Save, Goto, TypeOK
  <2> QED BY <1>1, <2>1, <2>2, StillExplained DEF IInv, TypeOK
<1> QED BY <1>2, <1>3, <1>4, <1>5 DEF Next

THEOREM InductiveInvariant == Spec => []IInv
<1> QED BY InitiallyIInv, NextKeeps, PTL DEF Spec

\* Records and what syncs loaded of them are well formed.
THEOREM TypeCorrect == Spec => []TypeOK
<1>1. IInv => TypeOK
  BY DEF IInv
<1> QED BY <1>1, InductiveInvariant, PTL

\* The versions of every record explain its data, also when syncs overlap and one
\* saves over what it loaded before another one saved: applied in turn they give
\* every field its value, but for the fields that a later file left out.
THEOREM VersionsExplain == Spec => []VersionsExplainData
<1>1. IInv => VersionsExplainData
  BY DEF IInv
<1> QED BY <1>1, InductiveInvariant, PTL
--------------------------------------------------------------------------------
(* A sync in its turn *)

\* A sequence is a prefix of itself and of itself with one more element.
LEMMA PrefixOfAppend ==
    ASSUME NEW S, NEW s \in Seq(S), NEW x \in S
    PROVE  IsPrefix(s, s) /\ IsPrefix(s, Append(s, x))
<1> DEFINE t == Append(s, x)  u == SubSeq(t, 1, Len(s))
<1>1. SubSeq(s, 1, Len(s)) = s
  BY SubSeqFull
<1>2. /\ t \in Seq(S) /\ Len(t) = Len(s) + 1 /\ Len(s) \in Nat
      /\ \A i \in 1..Len(s) : t[i] = s[i]
  OBVIOUS
<1>3. \A i \in 1..Len(s) : t[i] \in S
  BY <1>2
<1>4. u \in Seq(S) /\ Len(u) = Len(s) /\ \A i \in 1..Len(s) : u[i] = t[i]
  <2> HIDE DEF t
  <2> QED BY <1>2, <1>3, SubSeqProperties
<1> HIDE DEF u
<1>5. u = s
  BY <1>2, <1>4, SeqEqual
<1> QED BY <1>1, <1>2, <1>5 DEF IsPrefix, u

\* Nothing precedes an empty history.
LEMMA EmptyIsPrefix ==
    ASSUME NEW S, NEW s \in Seq(S)
    PROVE  IsPrefix(<<>>, s)
<1>1. SubSeq(s, 1, 0) = <<>> /\ Len(<<>>) = 0 /\ Len(s) \in Nat
  BY SubSeqEmpty
<1> QED BY <1>1 DEF IsPrefix

\* Who moves on from "save" in a step is the sync that makes it.
LEMMA TurnIsOfOne ==
    ASSUME TypeOK, Next, NEW s \in Syncs, Undisturbed(s)
    PROVE  UNCHANGED records \/ Save(s)
<1>1. pc[s] = "save" /\ pc'[s] # "save"
  BY DEF Undisturbed
<1>2. PICK t \in Syncs : Start(t) \/ Extract(t) \/ Load(t) \/ TransformFails(t) \/ Save(t)
  BY DEF Next
<1>3. CASE t # s
  <2>1. \E place : pc' = [pc EXCEPT ![t] = place]
    BY <1>2 DEF Start, Extract, Load, TransformFails, Save, Goto
  <2>2. pc'[s] = pc[s]
    BY <1>3, <2>1 DEF TypeOK
  <2> QED BY <1>1, <2>2
<1>4. CASE t = s
  BY <1>2, <1>4 DEF Start, Extract, Load, TransformFails
<1> QED BY <1>3, <1>4

\* What a sync that saves over what it loaded makes of a record.
LEMMA TurnTransforms ==
    ASSUME IInv, Next, NEW s \in Syncs, Undisturbed(s), NEW id \in RowIds
    PROVE  \/ records'[id] = records[id]
           \/ \E row : /\ IsRow(content[s], row) /\ ~Throws(content[s])
                      /\ records'[id] = TransformRow(records[id], s, content[s], row)
<1>1. TypeOK /\ loaded[s][id] = records[id]
  BY DEF IInv, Undisturbed
<1>2. UNCHANGED records \/ Save(s)
  BY <1>1, TurnIsOfOne
<1>3. CASE Save(s)
  BY <1>1, <1>3, SaveTransforms DEF Save
<1> QED BY <1>2, <1>3

\* A sync in its turn never rewrites what is in a version history.
THEOREM HistoriesGrowInTurn == Spec => HistoryGrowsInTurn
<1> DEFINE Grows == \A s \in Syncs : Undisturbed(s) =>
             \A id \in RowIds : IsPrefix(records[id].versions, records'[id].versions)
<1>1. ASSUME IInv, IInv', [Next]_vars PROVE [Grows]_vars
  <2> SUFFICES ASSUME Next, NEW s \in Syncs, Undisturbed(s), NEW id \in RowIds
               PROVE  IsPrefix(records[id].versions, records'[id].versions)
    BY <1>1
  <2>1. /\ records[id] \in Records /\ records'[id] \in Records
        /\ Explained(records[id]) /\ content[s] \in Contents
    BY <1>1 DEF IInv, TypeOK, VersionsExplainData
  <2>2. PICK old, new : old = records[id].versions /\ new = records'[id].versions
    OBVIOUS
  <2>3. old \in Seq(Versions) /\ new \in Seq(Versions)
    BY <2>1, <2>2 DEF Records
  <2>4. CASE old = <<>>
    <3>1. IsPrefix(old, new)
      BY <2>3, <2>4, EmptyIsPrefix
    <3> QED BY <2>2, <3>1 DEF IsPrefix
  <2>5. CASE old # <<>>
    <3>1. PICK version : version = old[1]
      OBVIOUS
    <3>2. version \in Versions
      BY <2>3, <2>5, <3>1
    <3>3. CASE new = old
      <4>1. IsPrefix(old, new)
        BY <2>3, <3>2, <3>3, PrefixOfAppend
      <4> QED BY <2>2, <4>1 DEF IsPrefix
    <3>4. CASE \E v : new = Append(old, v)
      <4>1. PICK v : new = Append(old, v)
        BY <3>4
      <4>2. v \in Versions
        <5>1. new[Len(old) + 1] = v /\ Len(new) = Len(old) + 1 /\ Len(old) \in Nat
          BY <2>3, <4>1
        <5>2. Len(old) + 1 \in 1..Len(new)
          BY <5>1
        <5> QED BY <2>3, <5>1, <5>2
      <4>3. IsPrefix(old, new)
        BY <2>3, <4>1, <4>2, PrefixOfAppend
      <4> QED BY <2>2, <4>3 DEF IsPrefix
    <3>5. records[id] # NoRecord
      BY <2>2, <2>5 DEF NoRecord
    <3>6. \A row : TransformRow(records[id], s, content[s], row) = records[id]
                   \/ \E v : TransformRow(records[id], s, content[s], row).versions = Append(old, v)
      BY <2>2, <3>5 DEF TransformRow, Updated
    <3>7. new = old \/ \E v : new = Append(old, v)
      BY <1>1, <2>2, <3>6, TurnTransforms
    <3> QED BY <3>3, <3>4, <3>7
  <2> QED BY <2>4, <2>5
<1> QED BY <1>1, InductiveInvariant, PTL DEF Spec, HistoryGrowsInTurn

\* A sync in its turn adds a version only to a record of which a stored value changed,
\* a blank cell for a missing one included, or which holds an object.
THEOREM VersionsMeanChange == Spec => NoVersionWithoutChange
<1> DEFINE Means == \A s \in Syncs : Undisturbed(s) =>
             \A id \in RowIds : records'[id].versions # records[id].versions =>
                 \E f \in Fields : Changed(id, f) \/ records'[id].data[f] \in Objects
<1>1. ASSUME IInv, [Next]_vars PROVE [Means]_vars
  <2> SUFFICES ASSUME Next, NEW s \in Syncs, Undisturbed(s), NEW id \in RowIds,
                      records'[id].versions # records[id].versions
               PROVE  \E f \in Fields : Changed(id, f) \/ records'[id].data[f] \in Objects
    BY <1>1
  <2>1. PICK old, new, c : old = records[id] /\ new = records'[id] /\ c = content[s]
    OBVIOUS
  <2>2. old \in Records /\ c \in Contents
    BY <1>1, <2>1 DEF IInv, TypeOK
  <2>3. new # old
    BY <2>1
  <2>4. PICK row : IsRow(c, row) /\ ~Throws(c) /\ new = TransformRow(old, s, c, row)
    BY <1>1, <2>1, <2>3, TurnTransforms
  <2>5. CASE old = NoRecord
    <3>1. new.data = RowData(c, row)
      BY <2>4, <2>5 DEF TransformRow, Created
    <3>2. Cell(c, row, DateField) # Undefined
      BY <2>4 DEF Throws, IsRow
    <3>3. new.data[DateField] # old.data[DateField] /\ DateField \in Fields
      BY <2>5, <3>1, <3>2, FieldsAssumption DEF RowData, NoRecord
    <3> QED BY <2>1, <3>3 DEF Changed
  <2>6. CASE old # NoRecord /\ DOMAIN Delta(old, c, row) # {}
    <3>1. new.data = RowData(c, row)
      BY <2>4, <2>6 DEF TransformRow, Updated
    <3>2. PICK delta : delta = Delta(old, c, row)
      OBVIOUS
    <3>3. IsDelta(delta, old.data, RowData(c, row), c.columns)
      BY <2>2, <2>4, <3>2, DeltaFacts
    <3>4. PICK f \in DOMAIN delta : TRUE
      BY <2>6, <3>2
    <3>5. f \in Fields /\ (new.data[f] # old.data[f] \/ new.data[f] \in Objects)
      BY <3>1, <3>3, <3>4 DEF IsDelta
    <3> QED BY <2>1, <3>5 DEF Changed
  <2>7. ~(old # NoRecord /\ DOMAIN Delta(old, c, row) = {})
    BY <2>3, <2>4 DEF TransformRow
  <2> QED BY <2>5, <2>6, <2>7
<1> QED BY <1>1, InductiveInvariant, PTL DEF Spec, NoVersionWithoutChange
================================================================================
