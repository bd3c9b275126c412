\* Every way through the organisation form, and spoilt submissions; two of the
\* organisations are edited.
CONSTANTS
    KnownDuplicates = {"Timescale (Aluminium)"}
    Elements <- MCElements
    Submissions <- MCSubmissions
    Payloads <- MCPayloads
    Edited <- MCEdited
    MaxPuts = 3
    MaxStarts = 2
SPECIFICATION EditsSpec
INVARIANTS
    TypeOK
    FollowedFormIsAccepted
    AnswersAreKept
    AddressPartsKeepTheirPlace
    StoredStaysValid
    PutBackChangesNothing
PROPERTIES
    OnlyWhatIsAskedChanges
CHECK_DEADLOCK FALSE
