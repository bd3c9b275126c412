------------------------------ MODULE LogValidation ------------------------------
(***************************************************************************)
(* What the worker thread does between reading a summary log and writing   *)
(* its verdict: extract the file, check the syntax of its metadata and of  *)
(* its tables, fetch the registration, compare the two, and turn the       *)
(* issues found into the stored validation result.  SummaryLogs has this   *)
(* as the single step WorkerCheck with any verdict.                        *)
(***************************************************************************)
EXTENDS Integers, Sequences, SequencesExt

CONSTANTS
    Numbers,        \* registration and accreditation numbers
    Absent,         \* a missing cell, field or number
    Malformed,      \* a value the metadata schema refuses
    TwiceMalformed, \* a type it refuses twice: too long, and of the wrong letters
    Unstored,       \* no verdict written yet
    Tables,         \* the tables a file may hold
    MaxTables       \* bound: tables in a file

ASSUME NumbersAssumption ==
    /\ Absent \notin Numbers
    /\ {Malformed, TwiceMalformed} \cap (Numbers \cup {Absent}) = {}
    /\ Malformed # TwiceMalformed
ASSUME MaxTablesAssumption == MaxTables \in Nat

\* A table: whether it has a schema, how many required headers it lacks, and,
\* for each row, how many of its cells the row schema refuses.
ASSUME TablesAssumption ==
    \A t \in Tables : t.schema \in BOOLEAN /\ t.missing \in Nat /\ t.rows \in Seq(Nat)

VARIABLES
    file,          \* the file: metadata cells and tables (never changes)
    registration,  \* the registration fetched
    step,          \* the next thing to do
    table,         \* number of the next table to check
    found,         \* issues of the validator at work
    issues,        \* issues merged so far
    result         \* what is stored in the summary log

vars == <<file, registration, step, table, found, issues, result>>

\* PROCESSING_TYPE_MAP and MATERIAL_MAP, with two of the seven materials.
ProcessingTypeMap == [REPROCESSOR |-> "reprocessor", EXPORTER |-> "exporter"]
MaterialMap == [Plastic |-> "plastic", Wood |-> "wood"]
Lookup(map, key) == IF key \in DOMAIN map THEN map[key] ELSE "undefined"

MetaCells == [
    PROCESSING_TYPE : DOMAIN ProcessingTypeMap \cup {"OTHER", Absent, Malformed, TwiceMalformed},
    TEMPLATE_VERSION : {"valid", Absent, Malformed},
    MATERIAL : DOMAIN MaterialMap \cup {"Other", Absent, Malformed},
    ACCREDITATION : Numbers \cup {Absent, Malformed},
    REGISTRATION : Numbers \cup {Absent, Malformed}]
\* TABLE_SCHEMAS has one table, and a file holds a table once.
OneWithSchema(tables) ==
    \A i, j \in DOMAIN tables : tables[i].schema /\ tables[j].schema => i = j
Files == [meta : MetaCells, tables : {ts \in BoundedSeq(Tables, MaxTables) : OneWithSchema(ts)}]

Registrations == [
    wasteRegistrationNumber : Numbers \cup {Absent},
    wasteProcessingType : {"reprocessor", "exporter", "unexpected"},
    material : {"plastic", "wood", "unexpected"},
    accreditationNumber : Numbers \cup {Absent}]

\* What an issue is about; an exception may have an empty message.
Subjects == {"exception", "emptyException", "meta", "header", "cell",
             "registration", "type", "accreditation", "material"}
Issues == [severity : {"fatal", "error"}, about : Subjects, row : Nat]
Fatal(about) == [severity |-> "fatal", about |-> about, row |-> 0]

\* Mutant: a severity of its own for cells.
CellWarning(row) == [severity |-> "warning", about |-> "cell", row |-> row]

CellError(row) == [severity |-> "error", about |-> "cell", row |-> row]
Steps == {"extract", "meta", "tables", "fetch", "number", "type", "accreditation",
          "material", "conclude", "stored", "refused"}

Results == [status : {"validated", "invalid"}, issues : Seq(Issues),
            failureReason : Issues \cup {Absent}]

\* No registration and no result are a missing one.
ASSUME SentinelsAssumption == Absent \notin Registrations /\ Unstored \notin Results

TypeOK ==
    /\ file \in Files
    /\ registration \in Registrations \cup {Absent}
    /\ step \in Steps
    /\ table \in Nat \ {0}
    /\ found \in Seq(Issues)
    /\ issues \in Seq(Issues)
    /\ result \in Results \cup {Unstored}

Init ==
    /\ file \in Files
    /\ registration = Absent
    /\ step = "extract"
    /\ table = 1
    /\ found = <<>>
    /\ issues = <<>>
    /\ result = Unstored
--------------------------------------------------------------------------------
(* validation-issues.js *)

IsFatal(list) == \E i \in DOMAIN list : list[i].severity = "fatal"

Repeat(issue, n) == [i \in 1..n |-> issue]
Goto(place) == step' = place

\* issues.merge(validate({ parsed, registration }))
Merge(list) == issues' = issues \o list
--------------------------------------------------------------------------------
(* Extraction and syntax *)

\* An exception anywhere in performValidationChecks becomes a fatal issue with
\* the error's message.
Throw ==
    /\ \E about \in {"exception", "emptyException"} : Merge(<<Fatal(about)>>)
    /\ Goto("conclude")

\* extractor.extract: the file may be gone, unreadable or badly marked.
Extract ==
    /\ step = "extract"
    /\ (Goto("meta") /\ UNCHANGED issues) \/ Throw
    /\ UNCHANGED <<file, registration, table, found, result>>

\* What metaSchema says against a field; only ACCREDITATION is optional.
Refusals(f) ==
    {d \in {"required", "malformed", "malformed too"} :
        \/ d = "required" /\ file.meta[f] = Absent /\ f # "ACCREDITATION"
        \/ d = "malformed" /\ file.meta[f] \in {Malformed, TwiceMalformed}
        \/ d = "malformed too" /\ file.meta[f] = TwiceMalformed}

BadMetaDetails == UNION {{f} \X Refusals(f) : f \in DOMAIN file.meta}

\* Mutant: abortEarly.
ValidateFirstMetaSyntax ==
    /\ step = "meta"
    /\ Merge(IF BadMetaDetails = {} THEN <<>> ELSE <<Fatal("meta")>>)
    /\ Goto("tables")
    /\ UNCHANGED <<file, registration, table, found, result>>

ValidateMetaSyntax ==
    /\ step = "meta"
    /\ Merge(Repeat(Fatal("meta"), Cardinality(BadMetaDetails)))
    /\ Goto("tables")
    /\ UNCHANGED <<file, registration, table, found, result>>

HeaderIssues(t) == Repeat(Fatal("header"), t.missing)
RowIssues(t) == FlattenSeq([r \in DOMAIN t.rows |-> Repeat(CellError(r), t.rows[r])])

\* validateTable: rows are checked only while no table lacks a header.
TableIssues(t) ==
    HeaderIssues(t) \o (IF IsFatal(found \o HeaderIssues(t)) THEN <<>> ELSE RowIssues(t))

ValidateTable ==
    /\ step = "tables"
    /\ table <= Len(file.tables)
    /\ found' = found \o (IF file.tables[table].schema THEN TableIssues(file.tables[table]) ELSE <<>>)
    /\ table' = table + 1
    /\ UNCHANGED <<file, registration, step, issues, result>>

\* With a fatal issue the business checks are left out.
TablesDone ==
    /\ step = "tables"
    /\ table > Len(file.tables)
    /\ Merge(found)
    /\ Goto(IF IsFatal(issues \o found) THEN "conclude" ELSE "fetch")
    /\ UNCHANGED <<file, registration, table, found, result>>
--------------------------------------------------------------------------------
(* The registration and the business checks *)

\* findRegistrationById, from a secondary: any version of it, or an exception.
FetchRegistration ==
    /\ step = "fetch"
    /\ \/ \E r \in Registrations : registration' = r /\ Goto("number") /\ UNCHANGED issues
       \/ Throw /\ UNCHANGED registration
    /\ UNCHANGED <<file, table, found, result>>

Check(here, next, about, passes) ==
    /\ step = here
    /\ Merge(IF passes THEN <<>> ELSE <<Fatal(about)>>)
    /\ Goto(next)
    /\ UNCHANGED <<file, registration, table, found, result>>

\* Mutant: a registration without a number matches nothing, so it is let through.
ValidateNumberIfAny ==
    Check("number", "type", "registration",
        registration.wasteRegistrationNumber \in {Absent, file.meta.REGISTRATION})

ValidateRegistrationNumber ==
    Check("number", "type", "registration",
        /\ registration.wasteRegistrationNumber # Absent
        /\ file.meta.REGISTRATION = registration.wasteRegistrationNumber)

ValidateProcessingType ==
    Check("type", "accreditation", "type",
        /\ registration.wasteProcessingType \in Range(ProcessingTypeMap)
        /\ Lookup(ProcessingTypeMap, file.meta.PROCESSING_TYPE) = registration.wasteProcessingType)

ValidateAccreditationNumber ==
    Check("accreditation", "material", "accreditation",
        file.meta.ACCREDITATION = registration.accreditationNumber)

ValidateMaterialType ==
    Check("material", "conclude", "material",
        /\ registration.material \in Range(MaterialMap)
        /\ Lookup(MaterialMap, file.meta.MATERIAL) = registration.material)
--------------------------------------------------------------------------------
(* The verdict *)

Status(list) == IF IsFatal(list) THEN "invalid" ELSE "validated"

\* The message of the first issue, whatever its severity.
FailureReason(list) == IF IsFatal(list) THEN list[1] ELSE Absent

\* What is stored: summaryLogUpdateSchema does not list the summary of the issues
\* that the validator sends as well, and strips it.
Update(list) == [status |-> Status(list), issues |-> list,
                 failureReason |-> FailureReason(list)]

\* It refuses an empty failureReason.
Saveable(update) == update.failureReason # Fatal("emptyException")

Store ==
    /\ step = "conclude"
    /\ Saveable(Update(issues))
    /\ result' = Update(issues)
    /\ Goto("stored")
    /\ UNCHANGED <<file, registration, table, found, issues>>

StoreRefused ==
    /\ step = "conclude"
    /\ ~Saveable(Update(issues))
    /\ Goto("refused")
    /\ UNCHANGED <<file, registration, table, found, issues, result>>

Next ==
    \/ Extract \/ ValidateMetaSyntax \/ ValidateTable \/ TablesDone \/ FetchRegistration
    \/ ValidateRegistrationNumber \/ ValidateProcessingType
    \/ ValidateAccreditationNumber \/ ValidateMaterialType
    \/ Store \/ StoreRefused

Spec == Init /\ [][Next]_vars
--------------------------------------------------------------------------------
(* Correctness *)

SyntaxIsSound ==
    /\ \A f \in DOMAIN file.meta : file.meta[f] \notin {Malformed, TwiceMalformed}
    /\ \A f \in DOMAIN file.meta \ {"ACCREDITATION"} : file.meta[f] # Absent
    /\ \A t \in Range(file.tables) : t.schema => t.missing = 0

TypeAgrees(r) ==
    <<file.meta.PROCESSING_TYPE, r.wasteProcessingType>> \in
        {<<"REPROCESSOR", "reprocessor">>, <<"EXPORTER", "exporter">>}
MaterialAgrees(r) ==
    <<file.meta.MATERIAL, r.material>> \in {<<"Plastic", "plastic">>, <<"Wood", "wood">>}
BelongsTo(r) ==
    /\ file.meta.REGISTRATION = r.wasteRegistrationNumber
    /\ file.meta.ACCREDITATION = r.accreditationNumber
    /\ TypeAgrees(r) /\ MaterialAgrees(r)

\* A log is validated exactly when its file can be processed and belongs to the
\* registration: bad cells never block it, and nothing else lets it through
\* (ADR 0020; performValidationChecks and the six validators).
VerdictIsRight ==
    result # Unstored =>
        (result.status = "validated"
            <=> /\ registration # Absent
                /\ SyntaxIsSound /\ BelongsTo(registration))

About(list, about) == Cardinality({i \in DOMAIN list : list[i].about = about})
HasSchema == {i \in DOMAIN file.tables : file.tables[i].schema}
MissingHeaders == UNION {{i} \X (1..file.tables[i].missing) : i \in HasSchema}
BadCells(t) == UNION {{r} \X (1..t.rows[r]) : r \in DOMAIN t.rows}
AllBadCells == UNION {{i} \X BadCells(file.tables[i]) : i \in HasSchema}

\* The user is told of all syntax problems at once, and, when there are none, of
\* all mismatches at once; cells are judged when all headers are there, also when
\* the metadata is bad (validate.js and data-syntax.js).
ReportIsComplete ==
    result # Unstored /\ About(issues, "exception") + About(issues, "emptyException") = 0 =>
        /\ About(issues, "meta") = Cardinality(BadMetaDetails)
        /\ About(issues, "header") = Cardinality(MissingHeaders)
        /\ About(issues, "cell") =
            (IF MissingHeaders # {} THEN 0
             ELSE Cardinality(AllBadCells))
        /\ SyntaxIsSound /\ ~BelongsTo(registration) =>
            /\ (About(issues, "registration") = 0)
                 <=> (file.meta.REGISTRATION = registration.wasteRegistrationNumber)
            /\ (About(issues, "accreditation") = 0)
                 <=> (file.meta.ACCREDITATION = registration.accreditationNumber)
            /\ (About(issues, "type") = 0) <=> TypeAgrees(registration)
            /\ (About(issues, "material") = 0) <=> MaterialAgrees(registration)
--------------------------------------------------------------------------------
(* The invariant of the proofs *)

AfterMaterial == {"conclude", "stored", "refused"}
AfterAccreditation == AfterMaterial \cup {"material"}
AfterType == AfterAccreditation \cup {"accreditation"}
AfterNumber == AfterType \cup {"type"}
AfterFetch == AfterNumber \cup {"number"}
AfterTables == AfterFetch \cup {"fetch"}

Thrown == \E i \in DOMAIN issues : issues[i].about \in {"exception", "emptyException"}

\* Only bad cells are not fatal.
SeverityTells(list) == \A i \in DOMAIN list : list[i].severity = "fatal" <=> list[i].about # "cell"

\* What is found in the table with a schema: the headers it lacks, or its bad cells.
Expected(t) == HeaderIssues(t) \o (IF IsFatal(HeaderIssues(t)) THEN <<>> ELSE RowIssues(t))
FoundInTables ==
    /\ \A i \in HasSchema : i < table => found = Expected(file.tables[i])
    /\ (\A i \in HasSchema : i >= table) => found = <<>>

\* The syntax problems that are reported.
SyntaxReported ==
    /\ About(issues, "meta") = IF step \in {"extract", "meta"} THEN 0 ELSE Cardinality(BadMetaDetails)
    /\ About(issues, "header") = IF step \in AfterTables THEN Cardinality(MissingHeaders) ELSE 0
    /\ About(issues, "cell") =
        IF step \in AfterTables /\ MissingHeaders = {} THEN Cardinality(AllBadCells) ELSE 0

\* A check leaves an issue exactly when it is made and fails.
Checked(about, after, agrees) ==
    About(issues, about) = IF step \in after /\ SyntaxIsSound /\ ~agrees THEN 1 ELSE 0
ChecksReported ==
    /\ Checked("registration", AfterNumber,
               file.meta.REGISTRATION = registration.wasteRegistrationNumber)
    /\ Checked("type", AfterType, TypeAgrees(registration))
    /\ Checked("accreditation", AfterAccreditation,
               file.meta.ACCREDITATION = registration.accreditationNumber)
    /\ Checked("material", AfterMaterial, MaterialAgrees(registration))

IInv ==
    /\ TypeOK
    /\ step = "extract" => issues = <<>>
    /\ step \in {"extract", "meta"} => found = <<>> /\ table = 1
    /\ step \in AfterTables \ AfterMaterial => SyntaxIsSound
    /\ step \in AfterFetch \ AfterMaterial => registration # Absent
    /\ step \notin AfterFetch => registration = Absent
    /\ SeverityTells(issues) /\ SeverityTells(found)
    /\ FoundInTables
    /\ Thrown => registration = Absent /\ step \in AfterMaterial
    /\ ~Thrown => /\ SyntaxReported /\ ChecksReported
                  /\ step \in AfterMaterial /\ SyntaxIsSound => registration # Absent
    /\ result # Unstored => step = "stored" /\ result = Update(issues)
================================================================================
