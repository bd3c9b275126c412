# TLA+ models of epr-backend

The service takes in the summary logs (spreadsheets) that reprocessors and exporters of packaging
waste upload, keeps the organisations they belong to, and accepts applications of new ones. This
directory holds TLA+ modules of its stateful parts, TLC configurations that check them on small
instances, and TLAPS proofs about them. Paths below are relative to `src/src/` unless
they start with `docs/`.

`PROJECT.json` lists the components, the runs, a mutation for each checked property, the source
lines each definition stands for, the known hazards, and the disagreements between documents and code.

## The system

| Component | State | Operations | What makes it hard | What makes it correct |
|---|---|---|---|---|
| Summary logs (`repositories/summary-logs`, `routes/.../summary-logs`, `application/summary-logs/validate.js`, `adapters/validators/summary-logs/piscina.js`) | one versioned document per log; a queue of validations per server | upload-completed callback, status endpoint, validation | callbacks arrive twice or out of order on any server; every decision is taken on a secondary's answer; the validator is fire-and-forget | a file is accepted once, judged once, and the verdict is about that file; what a client was told stays true |
| Summary log validation (`validate.js`, `validations/`, `extractor.js`) | issues found so far | extract, check metadata, tables, business rules, store | order of the checks, short circuit, exceptions at each await; places of cells computed with column letters | validated exactly when the file is sound and is the registration's; bad cells are found where they stand |
| Workbook parser (`adapters/parsers/summary-logs/exceljs-parser.js`) | metadata context, active tables, result | one scan over all cells | several tables side by side, missing rows and cells | each marker yields its own table |
| Waste records (`application/waste-records`, `repositories/waste-records`) | versioned records of a registration | sync of a summary log | an await between loading and saving; a save that fails halfway; objects and empty cells under `!==`; columns that come and go | versions explain the data, history is not rewritten |
| Organisations (`repositories/organisations`, `routes/v1/organisations`) | one versioned document each, with a status history per part | GET, PUT, upsert | read on a secondary, write with a version filter on the primary, poll for the new version | no lost update, status histories only grow |
| Forms data migration (`server/run-forms-data-migration.js`, `forms-submission-data/migrate-forms-data.js`) | a MongoDB lock | one run at every start | servers starting together, crashes, failing upserts | one run at a time, the lock comes back |
| Forms submission parsing (`forms-submission-data`) | none | extract answers page by page, flatten, transform, validate | pages and answers are found by titles and labels that several pages may share; parser, form and schema each decide what is optional | a form that was filled in as it asks becomes an organisation with the applicant's answers |
| Organisation schemas (`repositories/organisations/schema.js`, `validation.js`, `helpers.js`) | none | insert and update schema, merge of fragments | four schemas forked from one; fragments add up | what is stored stays valid; a GET can be PUT back |
| Collections (`common/helpers/collections`, `common/helpers/plugins/mongo-db-plugin.js`) | collections, their validators, seeds | create or update, seed what is empty | instances start together, fail half-way, count on a lagging secondary | who serves, serves a database that is set up |
| Applications (`routes/v1/apply`, `common/helpers/apply`) | the collections of organisations, registrations and accreditations | check a form, count, insert, two emails, answer | count and insert are separate; calls that fail after taking effect; two checks that have to agree on a number | emails tell what is stored and their numbers are accepted |
| In-memory repositories (`repositories/*/inmemory.js`) | storage and a copy for the reads | as the MongoDB ones | the copy lags behind | they can stand in for the MongoDB ones |

Servers share nothing but MongoDB. `config.js` reads from secondaries and disables retried writes, so
a read may be old and a write whose answer is lost may have happened. An accepted summary log goes
from the callback handler to a worker thread of the same server, which parses and validates it and
writes the verdict with the same version filter as the handlers. The migration and the admins' PUTs
meet in the organisation documents. The sync into waste records is written but no route calls it.

What is not modelled, and why: logging, metrics, proxy, secure context and tracing are input and output
around the requests; the logging of upload details at the start reads and changes nothing; the bytes of
S3 (fetching a file succeeds or throws); routing, configuration and wiring of `server/` and `plugins/`
beyond what the modules take as constants; `common/helpers/mongo-lock.js`, which nothing calls; the
queries and summaries of `common/validation/validation-issues.js` and `retrieveFileUploadDetails`, whose
results nothing stores; formats and number ranges in Joi schemas; `scripts/` and the contract tests.
`PROJECT.json` lists every component with its status.

## Modules

| Module | Models | Composed of |
|---|---|---|
| `SummaryLogLifecycle` | abstract: announce, decide once, conclude with a verdict on the accepted file | |
| `SummaryLogs` | callback handler, repository, worker, status endpoint, replication, crash and stop | refines `SummaryLogLifecycle` |
| `InMemorySummaryLogs` | the in-memory repository and the inline validator under the same handlers | extends `SummaryLogs`; refines `SummaryLogLifecycle` as well |
| `SummaryLogsProofs` | theorems about the summary logs over either repository, the refinements included | extends `InMemorySummaryLogs` |
| `OrganisationStore` | abstract: each document a register with atomic updates of one part | |
| `Organisations` | GET, PUT with its polling, migration with its lock and upserts, replication, crash and restart | refines `OrganisationStore` when all reads come from one node |
| `InMemoryOrganisations` | the in-memory repository under the same PUTs and migrations | extends `Organisations`; refines `OrganisationStore` as well |
| `OrganisationsProofs` | theorems about `Organisations`, and about the choice between the two repositories | extends `InMemoryOrganisations` |
| `WasteRecords` | sync of files into versioned records, several syncs interleaved | |
| `WasteRecordsProofs` | theorems about `WasteRecords` | extends it |
| `LogValidation` | one run of the validator, from the file to the stored verdict | the step `WorkerCheck` of `SummaryLogs` |
| `LogValidationProofs` | theorems about `LogValidation` | extends it |
| `LeastNumber` | least and greatest numbers of a set, in place of induction | extended by all modules of proofs but those of the summary logs and the organisations |
| `SheetParser` | the scan of a workbook, cell by cell | the step `Extract` of `LogValidation` |
| `TableSyntax` | headers and cells of the scanned tables held against the table schema | extends `SheetParser`; the step `ValidateTable` of `LogValidation` |
| `SheetParserProofs` | theorems about `SheetParser` and `TableSyntax` | extends the second |
| `OrganisationSchema` | the insert and the update schema, and what validation makes of a document | |
| `FormsParsing` | from a submitted form to an organisation the schema accepts | extends `OrganisationSchema`; tells when a submission is in `Malformed` of `Organisations` |
| `OrganisationEdits` | the upsert of that organisation at every start and the admins' PUTs of fragments, field by field | extends `FormsParsing`; the merges of `Organisations` |
| `FormsParsingProofs` | theorems about `FormsParsing` and `OrganisationEdits` | extends the second |
| `ApplicationForms` | payload checks, extraction of answers, validators of the collections | |
| `DatabaseSetup` | instances that start: collections, counts, seeds | extends `ApplicationForms` |
| `Applications` | the three endpoints: orgId allocation, storage, emails, answers | extends `DatabaseSetup` |
| `ApplicationsProofs` | theorems about `Applications` and `DatabaseSetup` | extends the first |

The `MC*` modules only define constants and symmetries for TLC.

### SummaryLogs

An action ends where the code awaits something outside the process, so `FindExisting`, `WriteUpload`,
`Reread` and `StartValidation` are the stretches of `upload-completed/post.js` between its awaits, and
`WorkerFind`, `WorkerCheck`, `WorkerWrite` those of `validate.js`. A document is the sequence of its
committed versions (`history`); a read returns the index of a version: the last one from the primary,
the replayed one (`applied`) from a secondary. `updateOne` is `Commit` under `VersionMatches`, and its
`$set` is applied to what the primary holds although it was computed from what was read: `UploadedDoc`
and `VerdictDoc` keep the two apart. `tasks[s]` is the Piscina queue of server `s`, whose head the one
thread runs. A database error may come before or after the write took effect. An exception with an
empty message is `unsaveable`: the update schema refuses an empty `failureReason`. Content of files and
wording of reasons are left out; `validation` records which file a verdict is about.

`InMemorySummaryLogs` replaces the database and the pool: a method of the in-memory repository checks and
stores in one action, `cached` is the copy that answers the reads and `Sync` the `setImmediate` callback
that renews it, and `validation[r]` is the validation a callback started, which runs beside all others.
Its process is the only one and never crashes (with it everything would be gone).

### Organisations

`UpdateFind` reads the document that will be merged, `UpdateWrite` compares the caller's version on the
primary and replaces the document, `Confirm` is one attempt of the polling `findById`. A document has
a writer per part (`content`) and a status history per part; `Merged` and `StatusHistoryWithChanges`
are `helpers.js`. A migration takes the lock, lists submissions (any subset may have reached the node
that answers), upserts them concurrently and releases the lock in its `finally`. Parsing is the fact
whether a submission is in `Malformed`.

`InMemoryOrganisations` runs the same PUTs and migrations over the in-memory repository, whose `update`
and `upsert` are single actions. A retry of its `findById` comes after a timer, and the event loop runs
what `setImmediate` scheduled before it gets to a timer: that is the guard of `MemoryConfirm`, and why
a stored PUT is always confirmed there. The guard is an idealisation where one turn of the loop runs several
timers: what the first of them schedules comes after the others.

### WasteRecords

`Start`, `Extract`, `Load`, `Save` follow the awaits of `sync-from-summary-log.js`. The transformation
and the loop of the in-memory repository run without awaits that let another sync in between and are
one step (`Upsert`), which stores the rows before the first one the schema refuses. `Differs` is `!==`: a
blank cell (`Null`) differs from a missing one (`Undefined`: the row is cut short, or the file lacks the
column), and a value in `Objects` (a date, rich text, a hyperlink, an error) from its equal. A numeric
ROW_ID updates the record whose rowId is its text (`Printed`) and is refused as the rowId of a new record.
ROW_ID is the `id` of a row and not among its `Fields`, so the ROW_ID in the data of a record is left out.
`Replayed` is what the versions of a record give a field when they are applied in turn, `Given` what they
give it together with the columns of the files they came from: after an update from a file without the
column (`Dropped`) the data has nothing there, and the versions alone still have the older value.

### LogValidation, SheetParser and TableSyntax

All are sequential: the model is the steps in their order and everything that cuts them short. In
`LogValidation` a table is the number of its missing headers and bad cells, and a metadata field has as many
issues as the schema has things to say of it (`Refusals`; a processing type may be too long and of the wrong
letters at once); the material map has two of its seven entries. `SheetParser` visits what ExcelJS hands out (external, from its use in the
code and its tests): `eachRow` passes over rows in which no cell has a value, `eachCell` with
`includeEmpty` gives the cells up to the last one of the row. The tables, the metadata and the issues about
cells are sets: each has its location, the code looks them up by name, and the order of issues is in
`LogValidation`. Each cell is offered to all active tables (`UpdateCollection`), and a row is finalized for all
of them (`FinalizeRow`) before any is emitted. The definitions after "What a workbook
holds, without the scan" say which cells belong to which marker without any scanning state, and are the
reference the scan is compared with: the rows of a table end at the first one without a value in its columns
(`EndOf`, `OwnRows`), whether or not the scan meets that row (`MeetsEnd`). `TableSyntax` takes the tables of a finished scan: which headers are
missing, and which cells a column refuses. `Column` lists the texts of the instance that the Joi schema of
each column takes. Its locations are computed with letters, as `columns.js` does; `BadCellsAreFound` compares
them with the workbook, whose columns are counted.

### OrganisationSchema, FormsParsing and OrganisationEdits

A document or a fragment is a function from paths to values, a schema one from paths to `required`,
`optional` or `forbidden`; a value is either `Bad` or one its field takes. `Fork` is Joi's `fork` as
`schema.js` uses it, which reaches the organisation's own fields and no deeper, except for the status.

`ExtractPage` is one turn of the loop in `extractAnswers`, `Flatten`, `Transform` and `Validate` are what
follows; whatever throws ends in `failed`. A value is the sequence of its parts between commas, which is
all that addresses and nations look at. The answers of a page are a function from its labels. Absence has one representation, so `removeUndefinedValues` has
nothing to do. `entered` and `followed` of a submission are not read by the code; they say what
the applicant typed into which box of an address (the form engine, external, joins the boxes with
commas; what it demands of them is `EnteredAssumption`) and whether the answers were given along the conditions of the form, whose pages, labels and
required fields `MCFormsParsing` takes from the definitions in `data/fixtures/ea/organisation`.

A document has a value for each object and list in it, too, as JSON has (`IsFragment`), and is put together
from parts that agree (`Together`). The elements of lists are called by the names in `Elements`, which no field
has; a list longer than `Elements` is out of the model, and the guards of `Validate` and `Put` say so.

In `OrganisationEdits` nothing overlaps (that is `Organisations`): `Upsert` is one start, `Put` one request
with the current version, an older one or none. `Updated` merges as `helpers.js` does: the fields of the
organisation by a spread, registrations and accreditations by id and then by a spread, statuses into
their histories. `asked` is what the last write was given once the schema had dropped what it does not know.

### ApplicationForms, DatabaseSetup and Applications

A form is the sequence of its fields with the kind of what was entered; numbers and references are kept,
other texts are not. `CreateOrUpdateCollections` to `SeedEPROrganisations` are the awaits of
`create-update.js`, and `StartFails` may end a start at each of them. Documents are places in the oplog, of
which a secondary has applied a prefix. The orgId is `Start + count + 1` over the organisations the
answering node has. An insert or an email may succeed without the caller learning it. The registration and
the accreditation endpoint are one handler with two collections; the forms they get are typed by hand,
with anything in the two fields that matter, or copied from an email. A Notify key is taken to be configured.

## Runs

| Run | Question | Bounds and why they are enough |
|---|---|---|
| `summary_logs_races` | Are documents consistent, validations single, acknowledged outcomes and final answers permanent, does `update()` answer 404 never, and is every committed write a lifecycle step? Also `EitherInv`, the invariant of the proofs. | three callbacks with any payload on two servers, one log, two files, one lagging secondary, one crash, stop, database error or unsaveable verdict; the MongoDB repository and the in-memory one. Two callbacks can race, a third comes late; logs share only the queue of a server. The theorems below hold for any number. |
| `summary_logs_stuck` | Is every accepted log judged, with the default reads from a secondary? Violated, see below. | one log, one secondary, no faults |
| `organisations_primary` | Is an update atomic? Do status histories only grow, do two servers never migrate together, and is a PUT over the in-memory repository confirmed once it is stored? | two PUTs, two servers, one organisation with one item, two faults (crash, database error, failing unlock); the MongoDB repository and the in-memory one |
| `organisations_one_secondary` | Does an answer show the edit, does everything end, does the lock come back? Also `EitherInv`, the invariant of the proofs. | two organisations of which one is malformed, one lagging secondary, one database error, two polling attempts (the code's number is a setting); the in-memory repository runs the same PUTs and migrations under its own fairness |
| `organisations_history` | Status histories with two lagging secondaries: violated, see below. | two PUTs, one server |
| `waste_records_races` | Are the data exactly what the versions and the columns of their files give, under overlap? Do syncs in turn keep history and add versions for changes only? | three overlapping syncs of nine kinds of files over two rows and two columns: first and repeated upload, changed value, blank and missing cell, missing column, repeated row, a numeric id that is refused in the middle or updates a record, throwing rows, foreign and unknown types. Three syncs make one see the result of two that overlapped. |
| `log_validation_verdict` | Is the verdict right and the report complete? | all metadata cells (one may be refused twice) and registrations over two numbers, up to two tables: the short circuit between tables needs two |
| `sheet_parser_scan` | Does the scan give each marker its table and refuse exactly what is ambiguous, and are the bad cells found and located? | all workbooks of up to three rows of 17 kinds in one or two worksheets (a table's life is header, row, end); 420 workbooks with a table that has a schema: its columns in order, reversed, shifted, one missing or repeated, two rows of seven kinds (one may be blank), once before and once across column Z |
| `sheet_parser_empty_row` | Does a row without values end a table? Violated, see below. | as above |
| `forms_parsing_ways` | Does every way through the organisation form give an organisation that the schema accepts, is an answer ever replaced by another, do address parts keep their place? Does a stored organisation stay valid, can a GET be PUT back, does a write change what it was not asked to, does a start rewrite what nobody edited? | all ways through the form over two sets of activities and nations, addresses of three to six parts, one or two partners, each optional question left out, blank or answered; 14 kinds of spoilt submissions, each wrong in one place. Two organisations, with and without a partnership, are edited with up to three of 28 payloads between two starts: an item is added, changed by another payload, and changed back |
| `applications_races` | Do emails tell what is stored, are all answers true, are the numbers of an email accepted, is a serving instance's database set up? | two organisation forms, one application form, two instances, two requests, one secondary up to four writes behind (a complete seeding). A request overlaps the start of an instance or another request |
| `applications_duplicate` | Is an orgId unique? Violated, see below. | two requests at once, one instance, reads from the primary |

`CHECK_DEADLOCK` is off everywhere: the number of callbacks, PUTs, syncs, requests and faults is
bounded, and a scan or a validation is over when it is over. Symmetry is used in runs that have safety
properties only. The bounds are the constants `MaxFaults`, `AtOnce`, `MaxPosts`, `MaxLag`, `MaxPuts`,
`MaxStarts`, `MaxTables`, `MaxRows`, the length of `Elements`, and the sets of `Requests`, `Editors`,
`Syncs`, `Submissions` and `Applicants`.

`AnswersMoveForward` and `NeverNotFound` are about one secondary: with several, the second of two reads
may be answered by an older node, so that a log seems to move back, or a conflict is answered as 404.

## Fairness

The fair specifications of the summary logs and the organisations (`Fairness` of `SummaryLogs` and of
`Organisations`, which `EitherFairSpec` takes over) have weak fairness of each request handler, each
worker thread, each migration and its concurrent upserts, and of replication: the event loop runs every
continuation it was given, the operating system schedules the threads, and a secondary catches up.
In memory, `MemoryFairness` of `InMemoryOrganisations` has the same of the event loop, the callback
that syncs the copy included; the in-memory summary logs are checked for safety only, since there an
inline validation always reads before the sync that follows an update, and a log that was in
`preprocessing` is never judged: the stuck validation of the Noticed section, without any replica.
Nothing makes an uploader call, a client poll, an admin come, an operator clear a lock, a server
restart or a fault happen. The other modules have safety properties only.

## What is proved

For all values of the constants (any number of logs, servers, secondaries, requests, files, tables, any
faults, no bounds but those of the code), from the assumptions named in each module and nothing else.
These fix what the code fixes: the settings have one of their values, stand-ins for absence are not values,
a table has a schema or not, a payload is a form.

| Module | Theorems |
|---|---|
| `SummaryLogsProofs` | `InductiveInvariant` (`IInv`); `TypeCorrect`, `DocumentsStayConsistent`, `OneValidation`, `OutcomesStand`, `FinalAnswersAreTrue`; `Refinement` of the lifecycle; with one node to read from, `FoundStaysFound` (never 404) and `AnswersForward`; over either repository, `EitherInductiveInvariant` (`EitherInv`), `InlineValidationsAreAlone`, `EitherRefinement` and, with one node or in memory, `EitherReadsForward` |
| `OrganisationsProofs` | `InductiveInvariant` (`IInv`); `TypeCorrect`, `OneMigration`; with one node to read from, `StatusHistoriesGrow`, `AnswersShowEdits` and the `Refinement` of the store; over either repository, `EitherInductiveInvariant` (`EitherInv`); `StoredPutsConfirmed` if `MaxRetries > 1`; with one node to read from, or with the in-memory repository only, `EitherAnswersShowEdits` and `EitherRefinement` |
| `WasteRecordsProofs` | `InductiveInvariant` (`IInv`); `TypeCorrect`, `VersionsExplain`, and the action properties `HistoriesGrowInTurn` and `VersionsMeanChange` |
| `LogValidationProofs` | `InductiveInvariant` (`IInv`); `TypeCorrect`, `VerdictRight`, `ReportComplete` |
| `SheetParserProofs` | `InductiveInvariant` (`SyntaxInv`); `TypeCorrect`, `RefusedExactly`, `MarkersGiveTables`, `BadCellsFound`; `LettersCountColumns`, about the letters of any column |
| `FormsParsingProofs` | of the parser, `InductiveInvariant` (`IInv`), `TypeCorrect`, `AnswersKept`, `AddressPartsKept`; of the edits, `EditsInvariant` (`EditsInv`), `StoredValid`, `PutBackKept` and the action property `OnlyAskedChanges`; `ParserUnderEdits`, by which the first four hold of the edits as well |
| `ApplicationsProofs` | `InductiveInvariant` (`IInv`); `TypeCorrect`, `EmailsTell`, `EmailedAccepted`, `ServesSetUp`, `AnswersTrue` |

One node to read from is `OneNode`: reads go to the primary, or there is at most one secondary, which may lag
as far as it likes. With two secondaries these theorems are false, and the run `organisations_history` shows
how. `MaxRetries > 1` excludes only a service that was told never to try a read twice.

The invariants of the runs are not inductive; each module ends with the strengthening that is
(`IInv`, `OneNodeInv`, `EitherInv`, `SyntaxInv`, `EditsInv`), and each proof has one lemma per action. What the strengthening adds:

- Summary logs. A write checks a version and never a status, so that a commit is a legal transition has to
  come from: what was read is a committed version (`ReadsAreCommitted`); the transition was legal from that
  version (`DecisionsAreLegal`); a version number is the position in the history (`DocumentsConsistent`), so
  a version that matches is the last one and the read was not stale after all. `FinalIsLast` says that a
  final status seen anywhere is the last one, which makes a final answer true. `AcknowledgedOutcomeStands` is
  about answers; `StoredOutcomesStand` says the same from the moment the outcome is stored, and
  `UnansweredWhileRunning` ties the two. What all commits have in common is stated once (`CommitAppends`,
  `UploadCommits`, `VerdictCommits`), and the refinement follows by showing that each is `Announce`, `Decide`
  or `Conclude`. With one node, no later read is of an older version (`ReadsMoveForward`), and progress never
  falls along a history (`StatusesMoveForward`): hence never 404, and answers that move forward. In memory
  the handlers' writes are those two commits again. A validation that runs in the process is owed to an
  acknowledged upload (`ValidationsAreOwed`), of which a log has one; the copy lags (`CopyLags`) but shows no
  less than was told (`CopyShowsProgress`).
- Organisations. `PutsInOrder` and `ReadsAreCommitted` hold for any reads; the lock belongs to whoever migrates
  (`OneMigrationAtATime` is part of the invariant). With one node a base whose version passes the filter is the
  last version (`VersionsArePlaces`, `ReadsMoveForward`), so that find, merge and write are one update of the
  register: a step of `Apply` or `Resubmit` at the write, a stutter everywhere else. In memory there is no wait
  between check and write (`NothingIsHalfDone`), and the copy lags behind by at most what a scheduled callback will
  bring (`CopyLags`).
- Waste records. Versions explain what a sync has loaded, not only what is stored, as it may be saved later;
  the lemmas are about `TransformRow`, `LastSaved` and `Upsert` for a file of any length, with repeated rows
  and a refused one anywhere. `VersionsExplain` is an equality of each field of the data with what the versions
  and the columns of their files give it (`Given`), in both directions; versions alone do not determine the data,
  as the Noticed section says of `Dropped`. In `VersionsMeanChange` a blank cell that becomes a missing one is a change, and only a field that holds an object
  excuses a version without one.
- Log validation. After each step the issues of each subject are as many as the file has of that kind: the
  invariant says so per step, and which list was merged when (`FoundInTables`, `SyntaxReported`,
  `ChecksReported`). That the issues of a table's rows are as many as its bad cells is a fact about a list of
  any length.
- Workbook parser. The invariant says at every cell what the scan has made of the cells it passed
  (`Done`): the metadata are those of the markers passed, and one of them waits for its value exactly until the
  next cell (`MetadataScanned`); each data marker passed has one table (`MarkersScanned`); and that table has
  the headers up to this column, the rows up to this row and the cells of this row in its columns
  (`TablesScanned`). A row's place in a table is the number of scanned rows up to it, so that no step needs to
  count. `MarkersGiveTables` and `BadCellsFound` are about
  the rows up to the first empty one; that a table has no others holds only where the scan meets that row.
  A scan that stopped did so at a name that occurs twice or a marker where a value should be: hence
  refused exactly when ambiguous. At most one name has a schema, so that the checks look at one table at most.
  Letters are read back to the number they were made from by the least number for which they would not be, and
  that ties a reported location to the column the workbook counts.
- Forms parsing. The answers extracted are those of the first pages, no label is in a page twice, nothing is made
  of them before they are flattened, and an organisation is what `ParseOrgSubmission` makes of them. The last
  page that has a label is then the only one, unless the label is known to be repeated, which is `AnswersKept`.
  `AddressPartsKept` is about the places of the parts between commas, for boxes of any content.
- Edits. `DocumentSound`: at every place of the stored document there is a field that an insert knows, with a
  value it takes, every object has what an insert demands of it (`Complete`), histories are not empty and have
  sound statuses, and items have ids of their own. An update takes an item whole or not at all where `Fork`
  leaves the demands as they were, and a field of the organisation is replaced with all that is in it, so that
  a merge keeps objects complete: the spread of two whole contents is whole, the merged items are whole and
  distinct, and `StoredValid` puts the parts together again. `FormStored`: until somebody edits more than
  statuses, what is stored compares equal to the form. The proofs add the types of paths (`TypedStore`), of
  which TLC has no need. For `PutBackKept`, what a GET shows is a list of the items with statuses and histories
  added; the update schema drops the histories, a status that is the last one adds none, reading the items back
  gives them in their order, and merging an item with itself gives the item.
- Applications. Where a start or a request is tells what is in the oplog (`SetUpInOrder`, `RequestsInOrder`): a
  collection is created before it is counted, and counted before it is seeded; a prefix has no more
  organisations than the whole; an application answered with an email is stored once.

Where a proof needs induction over a list, it is replaced by the least number at which the claim would
fail, which exists (`LeastNumber`; the library has that numbers are well founded): in `LogValidationProofs` for
the lists of a table, in `WasteRecordsProofs` for the rows of a file, in `ApplicationsProofs` for the first answer of a kind, in `SheetParserProofs` for the letters
of a column and the ends of rows and tables, in `FormsParsingProofs` for pages, parts of an address and the
elements of a list (`InOrder` gives them by their places, where `SelectSeq` is defined by recursion).

Only model-checked:

- liveness and everything under fairness (`EverythingEnds`, `LockIsReturned`, and `ValidationConcludes`, which
  fails), which is beyond the prover; that with reads from the primary all logs in a server's queue are judged in
  the end is claimed nowhere;
- `FollowedFormIsAccepted`: that the parser and the schema agree with the form is a fact about one form, whose
  pages and conditions `MCFormsParsing` has; its ways are finite, and TLC takes them all.

`EditsInv` was checked as an invariant of `forms_parsing_ways` before it was proved (four minutes alone); it is not
in the run's configuration, which would not end in time with it.

## Where documents and code disagree

Each is a run that TLC violates; `PROJECT.json` quotes the document.

- `summary_logs_stuck`: a validator that reads before its log's insert is replicated gives up, nothing
  tries again and the log stays in `validating`, with no fault at all.
- `organisations_history`: `update()` checks the version on the primary but merges into an older
  document from a secondary, and a status history loses entries.
- `applications_duplicate`: the orgId is a count taken before the insert, and no index makes it unique.
- `sheet_parser_empty_row`: a row without any value does not end a table, because `eachRow` does not visit it, and
  neither does a row that is shorter than the table's first column; rows below it are taken into the table.

Noticed while modelling; no run is about these, the definitions named show them:

- `failureReason` is the message of the first issue, which may be a cell error that does not block
  (`FailureReason` in `LogValidation`; `application/summary-logs/validate.js:167`).
- The validator's `validation.summary` is stripped by the update schema (`Results`;
  `repositories/summary-logs/schema.js:49`).
- The validator accepts the processing types REPROCESSOR and EXPORTER, the transformation knows
  REPROCESSOR_INPUT, REPROCESSOR_OUTPUT and EXPORTER and throws on REPROCESSOR (`ProcessingTypeMap` in
  `LogValidation`, `ProcessingTypes` and `Throws` in `WasteRecords`).
- Overlapping syncs of one registration replace each other's records (`Upsert` in `WasteRecords`): that is why
  `HistoryGrowsInTurn` and `NoVersionWithoutChange` are about a sync that saves over what it loaded.
- When a later file lacks a column and another cell changed, the data of a record loses the column's value and no
  version says so: applied in turn, the versions still give the old value (`Dropped` and `Given` in
  `WasteRecords`; `application/waste-records/transform-from-summary-log.js:97`), where the high-level design has
  versions "used to understand the changes made to the original data".
- A row with a Date, rich text, hyperlink or error cell gets a version at each sync although nothing in it changed,
  and so does a row with a blank cell where there was a missing one, or the reverse (`Differs` in `WasteRecords`;
  line 79 of the same file); `sync-from-summary-log.test.js:169` expects none, with dates that are text. These are
  the two cases `NoVersionWithoutChange` names.
- A data row that ends before its table does loses the nulls at its end (`Cut` in `SheetParser`), which the marker
  guide says are preserved.
- No version mentions a change of ROW_ID in the data (`application/waste-records/transform-from-summary-log.js:79`).
- A metadata marker that ends its row takes its value from the next cell of a later row or worksheet
  (`ProcessMetadata` in `SheetParser`), where the guide promises the cell to the right.
- Below a row that the scan left out, error locations are one row too high (`ErrorLocation` in
  `TableSyntax`; that is why `BadCellsAreFound` stops there;
  `application/summary-logs/validations/data-syntax.js:73`).
- Once an admin has added a registration, or a field that the form does not give, every start writes a new
  version of the organisation, as the comparison with the form never comes out equal again (`HasChanges` in
  `OrganisationEdits`; `repositories/organisations/mongodb.js:131`): that is why the last part of
  `OnlyWhatIsAskedChanges` is about organisations of which only statuses were edited.
- A start does not see that a date was edited, since the comparison makes the same empty object of all dates
  (`Undated` in `OrganisationEdits`; `repositories/organisations/helpers.js:67`).
- A status asked for in the fragment that adds a registration or accreditation is ignored: a new item is
  `created` (`repositories/organisations/helpers.js`).
- A start that is cut off after it seeded the organisation leaves the sample registration and accreditation
  out for good (`CountOrganisationsForSeed` in `DatabaseSetup`).
- Over the in-memory repository the inline validator reads the copy before the scheduled callback renews it:
  when an upload was announced as pending before, the validation works on the older version, its update is
  refused, and the log stays in `validating` (`InlineFind` in `InMemorySummaryLogs`).
- `FORM_PAGES` has no title for the page of the general partners, so that the partners of a partnership
  under the Act of 1890 are dropped; were they found, the schema would refuse them, as it demands a
  partnership type and has no corporate partners (`GeneralPartnersTitle` and `Valid` in `FormsParsing`).
- With a comma typed into line 1, an address can have five parts without a line 2 and is taken apart wrongly
  (`PlaceMiddle`); that is why `AddressPartsKeepTheirPlace` has a premise.
- The guide's material "Paper and board" is "Paper_and_board" in `validations/material-type.js`.

## Plan

Done, in the order of importance: summary logs with their abstract lifecycle; organisations and migration
with the abstract store; waste records; validation; the workbook parser and the checks of its tables; forms
parsing; the schemas and edits of organisations; applications and database set-up; the in-memory
repositories against the same abstract specifications. Proved: what the section above lists.

Left to TLC for good, as the section above says: the properties under fairness and `FollowedFormIsAccepted`. Open
in the model: fetching a file from S3 is one step that succeeds or throws, and of the wiring of the server only
the choice of the repositories and the order of a start are there (the `partly` components of `PROJECT.json`).
