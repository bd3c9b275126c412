----------------------------- MODULE Organisations -----------------------------
(***************************************************************************)
(* Documents of the `epr-organisations` collection and everybody who       *)
(* writes them: admins, who GET an organisation and PUT a change with the  *)
(* version they saw, and the forms data migration each server runs when it *)
(* starts, under a MongoDB lock.  As in SummaryLogs, every await ends an   *)
(* action and a document is kept as the sequence of its versions; unlike   *)
(* there, an update writes back the whole document it read, so the version *)
(* a document carries and its place in the sequence are different things.  *)
(***************************************************************************)
EXTENDS Integers, Sequences

CONSTANTS
    Orgs,         \* ids of organisations for which a form was submitted
    Malformed,    \* those whose submission cannot be parsed
    Items,        \* registrations and accreditations admins may edit or add
    Top,          \* the organisation's own fields
    Editors,      \* PUT requests, each made by an admin who did a GET first
    NewStatuses,  \* statuses the admins ask for
    Servers,      \* instances of the service
    Secondaries,  \* MongoDB secondaries
    ReadFrom,     \* mongoOptions.readPreference: "secondary" or "primary"
    MaxRetries,   \* eventualConsistency.maxRetries
    Form,         \* the content the form submission has
    Nobody,       \* absence: of an item, of a lock holder
    FaultKinds,   \* the faults this instance admits
    MaxFaults     \* bound: how many faults may happen

Parts == Items \cup {Top}
OrgStatuses == {"created", "approved", "rejected", "suspended", "archived"}

ASSUME PartsAssumption == Top \notin Items /\ Malformed \subseteq Orgs
ASSUME WritersAssumption ==
    /\ Form \notin Editors
    /\ Nobody \notin Editors \cup {Form} \cup Servers
ASSUME StatusAssumption == NewStatuses \subseteq OrgStatuses
ASSUME RetriesAssumption == MaxRetries \in Nat \ {0}
ASSUME ReadFromAssumption == ReadFrom \in {"primary", "secondary"}
ASSUME FaultAssumption ==
    FaultKinds \subseteq {"crash", "database", "unlock"} /\ MaxFaults \in Nat

\* A PUT changes one part; its fragment may ask for a status.
Edits == [org : Orgs, part : Parts, status : NewStatuses \cup {"none"}]

\* content[p] stands for the fields of part p: it names who wrote them last.
Docs == [version : Nat,
         content : [Parts -> Editors \cup {Form, Nobody}],
         statuses : [Parts -> Seq(OrgStatuses)]]

ASSUME NobodyAssumption == Nobody \notin Docs

VARIABLES
    history,  \* history[o]: the states document o went through on the primary
    applied,  \* applied[d][o]: how many of them secondary d has replayed
    edit,     \* edit[e]: what PUT e changes (never changes)
    pc,       \* pc[e]: where PUT e is
    known,    \* known[e]: the version the admin saw and sends
    base,     \* base[e]: the state update() read and merges into
    tries,    \* tries[e]: reads done by findById after the update
    reply,    \* reply[e]: HTTP status; 0 not yet, -1 connection lost
    shown,    \* shown[e]: the state sent back with a 200
    written,  \* written[e]: the state the PUT produced, 0 for none
    phase,    \* phase[s]: where the migration of server s is
    upsert,   \* upsert[s][o]: where its upsert of organisation o is
    lock,     \* holder of the `forms-data-migration` lock
    faults    \* how many faults happened

vars == <<history, applied, edit, pc, known, base, tries, reply, shown, written,
          phase, upsert, lock, faults>>
storage == <<history, applied>>
puts == <<edit, pc, known, base, tries, reply, shown, written>>
migration == <<phase, upsert, lock>>

PCs == {"get", "find", "write", "confirm", "done"}
Phases == {"lock", "list", "upserts", "free", "done", "down"}
UpsertEnds == {"inserted", "updated", "unchanged", "upsertFailed", "transformFailed", "notListed"}
UpsertSteps == {"find", "insert", "reread", "write"}
Upserts == [at : UpsertSteps \cup UpsertEnds, version : Nat, base : Nat]
UpsertAt(step) == [at |-> step, version |-> 0, base |-> 0]

TypeOK ==
    /\ history \in [Orgs -> Seq(Docs)]
    /\ applied \in [Secondaries -> [Orgs -> Nat]]
    /\ edit \in [Editors -> Edits]
    /\ pc \in [Editors -> PCs]
    /\ known \in [Editors -> Nat]
    /\ base \in [Editors -> Nat]
    /\ tries \in [Editors -> 0..MaxRetries]
    /\ reply \in [Editors -> {-1, 0, 200, 404, 409, 500}]
    /\ shown \in [Editors -> Nat]
    /\ written \in [Editors -> Nat]
    /\ phase \in [Servers -> Phases]
    /\ upsert \in [Servers -> [Orgs -> Upserts]]
    /\ lock \in Servers \cup {Nobody}
    /\ faults \in Nat

Init ==
    /\ history = [o \in Orgs |-> <<>>]
    /\ applied = [d \in Secondaries |-> [o \in Orgs |-> 0]]
    /\ edit \in [Editors -> Edits]
    /\ pc = [e \in Editors |-> "get"]
    /\ known = [e \in Editors |-> 0]
    /\ base = [e \in Editors |-> 0]
    /\ tries = [e \in Editors |-> 0]
    /\ reply = [e \in Editors |-> 0]
    /\ shown = [e \in Editors |-> 0]
    /\ written = [e \in Editors |-> 0]
    /\ phase = [s \in Servers |-> "lock"]
    /\ upsert = [s \in Servers |-> [o \in Orgs |-> UpsertAt("notListed")]]
    /\ lock = Nobody
    /\ faults = 0
--------------------------------------------------------------------------------
(* Merging (repositories/organisations/helpers.js) *)

InitialStatusHistory == <<"created">>
CurrentStatus(statuses) == statuses[Len(statuses)]

\* Mutant: the new entry replaces the last one.
StatusHistoryReplaced(status, statuses) ==
    IF statuses = <<>> THEN InitialStatusHistory
    ELSE IF status \in {"none", CurrentStatus(statuses)} THEN statuses
    ELSE [statuses EXCEPT ![Len(statuses)] = status]

\* An item that is new starts at "created" whatever the fragment asks for.
StatusHistoryWithChanges(status, statuses) ==
    IF statuses = <<>> THEN InitialStatusHistory
    ELSE IF status \in {"none", CurrentStatus(statuses)} THEN statuses
    ELSE Append(statuses, status)

\* The document update() writes: what it read, with one part changed.
Merged(existing, part, writer, status) ==
    [version |-> existing.version + 1,
     content |-> [existing.content EXCEPT ![part] = writer],
     statuses |-> [existing.statuses EXCEPT ![part] = StatusHistoryWithChanges(status, @)]]

FormContent == [p \in Parts |-> IF p = Top THEN Form ELSE Nobody]

InsertedDoc ==
    [version |-> 1,
     content |-> FormContent,
     statuses |-> [p \in Parts |-> IF p = Top THEN InitialStatusHistory ELSE <<>>]]

\* Statuses and versions are left out of the comparison.
HasChanges(existing) == existing.content # FormContent
--------------------------------------------------------------------------------
(* MongoDB *)

Latest(o) == history[o][Len(history[o])]

\* What findOne on o can return.
Readable(o) ==
    IF ReadFrom = "primary" THEN {Len(history[o])}
    ELSE {applied[d][o] : d \in Secondaries}

\* Mutant: the filter of updateOne is {_id} alone.
AnyVersionMatches(o, version) == history[o] # <<>>

\* The filter of updateOne: {_id, version}, evaluated on the primary.
VersionMatches(o, version) == history[o] # <<>> /\ Latest(o).version = version

Commit(o, doc) == history' = [history EXCEPT ![o] = Append(@, doc)]

Replicate(d, o) ==
    /\ applied[d][o] < Len(history[o])
    /\ applied' = [applied EXCEPT ![d][o] = @ + 1]
    /\ UNCHANGED <<history, puts, migration, faults>>

CanFail(kind) == kind \in FaultKinds /\ faults < MaxFaults
Fail(kind) == CanFail(kind) /\ faults' = faults + 1
--------------------------------------------------------------------------------
(* GET and PUT /v1/organisations/{id} *)

OrgOf(e) == edit[e].org
Base(e) == history[OrgOf(e)][base[e]]
Edited(e) == Merged(Base(e), edit[e].part, e, edit[e].status)

Answer(e, code) ==
    /\ pc' = [pc EXCEPT ![e] = "done"]
    /\ reply' = [reply EXCEPT ![e] = code]

\* The admin opens the organisation; what is not there yet cannot be edited.
GetById(e) ==
    /\ pc[e] = "get"
    /\ \E i \in Readable(OrgOf(e)) \ {0} :
        known' = [known EXCEPT ![e] = history[OrgOf(e)][i].version]
    /\ pc' = [pc EXCEPT ![e] = "find"]
    /\ UNCHANGED <<storage, edit, base, tries, reply, shown, written, migration, faults>>

UpdateFind(e) ==
    /\ pc[e] = "find"
    /\ \E i \in Readable(OrgOf(e)) :
        IF i = 0 THEN Answer(e, 404) /\ UNCHANGED base
        ELSE /\ base' = [base EXCEPT ![e] = i]
             /\ pc' = [pc EXCEPT ![e] = "write"]
             /\ UNCHANGED reply
    /\ UNCHANGED <<storage, edit, known, tries, shown, written, migration, faults>>

StoreEdit(e) ==
    /\ VersionMatches(OrgOf(e), known[e])
    /\ Commit(OrgOf(e), Edited(e))
    /\ written' = [written EXCEPT ![e] = Len(history[OrgOf(e)]) + 1]

UpdateWrite(e) ==
    /\ pc[e] = "write"
    /\ \/ /\ StoreEdit(e)
          /\ pc' = [pc EXCEPT ![e] = "confirm"]
          /\ UNCHANGED reply
       \/ /\ ~VersionMatches(OrgOf(e), known[e])
          /\ Answer(e, 409)
          /\ UNCHANGED <<history, written>>
    /\ UNCHANGED <<applied, edit, known, base, tries, shown, migration, faults>>

\* handleFoundDocument
RecentEnough(o, i, minimumVersion) == i > 0 /\ history[o][i].version >= minimumVersion

\* Mutant: the answer does not wait for the new version.
AnswerAnyVersion(e) ==
    /\ pc[e] = "confirm"
    /\ \E i \in Readable(OrgOf(e)) \ {0} :
        shown' = [shown EXCEPT ![e] = i] /\ Answer(e, 200)
    /\ UNCHANGED <<storage, edit, known, base, tries, written, migration, faults>>

\* Mutant: the retries are not counted against the limit.
ConfirmForever(e) ==
    /\ pc[e] = "confirm"
    /\ \E i \in Readable(OrgOf(e)) :
        IF RecentEnough(OrgOf(e), i, known[e] + 1)
        THEN shown' = [shown EXCEPT ![e] = i] /\ Answer(e, 200) /\ UNCHANGED tries
        ELSE /\ UNCHANGED <<shown, pc, reply>>
             /\ tries' = [tries EXCEPT ![e] = @ + 1]
    /\ UNCHANGED <<storage, edit, known, base, written, migration, faults>>

\* findById(id, version + 1): poll until the new version shows, MaxRetries times.
Confirm(e) ==
    /\ pc[e] = "confirm"
    /\ \E i \in Readable(OrgOf(e)) :
        IF RecentEnough(OrgOf(e), i, known[e] + 1)
        THEN shown' = [shown EXCEPT ![e] = i] /\ Answer(e, 200) /\ UNCHANGED tries
        ELSE /\ UNCHANGED shown
             /\ tries' = [tries EXCEPT ![e] = @ + 1]
             /\ IF tries[e] + 1 < MaxRetries THEN UNCHANGED <<pc, reply>>
                ELSE Answer(e, IF i = 0 THEN 404 ELSE 500)
    /\ UNCHANGED <<storage, edit, known, base, written, migration, faults>>

\* A driver error is a 500; a write may have reached the primary anyway.
PutDatabaseError(e) ==
    /\ Fail("database")
    /\ \/ pc[e] \in {"find", "write", "confirm"} /\ UNCHANGED <<history, written>>
       \/ pc[e] = "write" /\ StoreEdit(e)
    /\ Answer(e, 500)
    /\ UNCHANGED <<applied, edit, known, base, tries, shown, migration>>
--------------------------------------------------------------------------------
(* The migration (run-forms-data-migration.js, migrate-forms-data.js) *)

Goto(s, place) == phase' = [phase EXCEPT ![s] = place]

\* Mutant: the null that locker.lock returns is not looked at.
LockUnchecked(s) ==
    /\ phase[s] = "lock"
    /\ lock' = s
    /\ Goto(s, "list")
    /\ UNCHANGED <<storage, puts, upsert, faults>>

\* locker.lock gives null when somebody holds the lock: the run is skipped.
Lock(s) ==
    /\ phase[s] = "lock"
    /\ IF lock = Nobody THEN lock' = s /\ Goto(s, "list")
       ELSE Goto(s, "done") /\ UNCHANGED lock
    /\ UNCHANGED <<storage, puts, upsert, faults>>

\* findAllOrganisations, on a node that may not have all the submissions yet.
\* All submissions are then parsed and upserted at once.
ListSubmissions(s) ==
    /\ phase[s] = "list"
    /\ \E listed \in SUBSET Orgs :
        upsert' = [upsert EXCEPT ![s] = [o \in Orgs |->
            UpsertAt(IF o \notin listed THEN "notListed"
                     ELSE IF o \in Malformed THEN "transformFailed" ELSE "find")]]
    /\ Goto(s, "upserts")
    /\ UNCHANGED <<storage, puts, lock, faults>>

Upserting(s, o, step) == phase[s] = "upserts" /\ upsert[s][o].at = step
Moves(s, o, to) == upsert' = [upsert EXCEPT ![s][o] = to]
Ends(s, o, outcome) == Moves(s, o, UpsertAt(outcome))

\* performUpsert: the first findOne decides what to do.
UpsertFind(s, o) ==
    /\ Upserting(s, o, "find")
    /\ \E i \in Readable(o) :
        IF i = 0 THEN Moves(s, o, UpsertAt("insert"))
        ELSE IF ~HasChanges(history[o][i]) THEN Ends(s, o, "unchanged")
        ELSE Moves(s, o, [at |-> "reread", version |-> history[o][i].version, base |-> 0])
    /\ UNCHANGED <<storage, puts, phase, lock, faults>>

StoreInsert(o) == history[o] = <<>> /\ Commit(o, InsertedDoc)

UpsertInsert(s, o) ==
    /\ Upserting(s, o, "insert")
    /\ \/ StoreInsert(o) /\ Ends(s, o, "inserted")
       \/ history[o] # <<>> /\ UNCHANGED history /\ Ends(s, o, "upsertFailed")
    /\ UNCHANGED <<applied, puts, phase, lock, faults>>

\* performUpdate reads again, and this is the document it merges into.
UpsertReread(s, o) ==
    /\ Upserting(s, o, "reread")
    /\ \E i \in Readable(o) :
        IF i = 0 THEN Ends(s, o, "upsertFailed")
        ELSE Moves(s, o, [at |-> "write", version |-> upsert[s][o].version, base |-> i])
    /\ UNCHANGED <<storage, puts, phase, lock, faults>>

StoreUpsert(s, o) ==
    /\ VersionMatches(o, upsert[s][o].version)
    /\ Commit(o, Merged(history[o][upsert[s][o].base], Top, Form, "none"))

UpsertWrite(s, o) ==
    /\ Upserting(s, o, "write")
    /\ \/ StoreUpsert(s, o) /\ Ends(s, o, "updated")
       \/ /\ ~VersionMatches(o, upsert[s][o].version)
          /\ UNCHANGED history
          /\ Ends(s, o, "upsertFailed")
    /\ UNCHANGED <<applied, puts, phase, lock, faults>>

UpsertDatabaseError(s, o) ==
    /\ Fail("database")
    /\ \/ \E step \in UpsertSteps : Upserting(s, o, step) /\ UNCHANGED history
       \/ Upserting(s, o, "insert") /\ StoreInsert(o)
       \/ Upserting(s, o, "write") /\ StoreUpsert(s, o)
    /\ Ends(s, o, "upsertFailed")
    /\ UNCHANGED <<applied, puts, phase, lock>>

\* Mutant: a failed submission leaves its promise pending.
UpsertsAllSucceed(s) ==
    /\ phase[s] = "upserts"
    /\ \A o \in Orgs : upsert[s][o].at \in {"inserted", "updated", "unchanged", "notListed"}
    /\ Goto(s, "free")
    /\ UNCHANGED <<storage, puts, upsert, lock, faults>>

\* Promise.all over the submissions.
UpsertsEnd(s) ==
    /\ phase[s] = "upserts"
    /\ \A o \in Orgs : upsert[s][o].at \in UpsertEnds
    /\ Goto(s, "free")
    /\ UNCHANGED <<storage, puts, upsert, lock, faults>>

\* Mutant: an error skips the release.
ListErrorKeepsLock(s) ==
    /\ phase[s] = "list"
    /\ Fail("database")
    /\ Goto(s, "done")
    /\ UNCHANGED <<storage, puts, upsert, lock>>

\* `finally` releases the lock whatever happened.
ListDatabaseError(s) ==
    /\ phase[s] = "list"
    /\ Fail("database")
    /\ Goto(s, "free")
    /\ UNCHANGED <<storage, puts, upsert, lock>>

\* lock.free(); when it fails the error is logged and the lock stays.
Free(s) ==
    /\ phase[s] = "free"
    /\ \/ lock' = Nobody /\ UNCHANGED faults
       \/ Fail("unlock") /\ UNCHANGED lock
    /\ Goto(s, "done")
    /\ UNCHANGED <<storage, puts, upsert>>
--------------------------------------------------------------------------------
(* The process *)

InFlight(e) == pc[e] \in {"find", "write", "confirm"}

\* A server dies with its migration, and some of the PUTs in flight are its own.
Crash(s) ==
    /\ phase[s] # "down"
    /\ Fail("crash")
    /\ Goto(s, "down")
    /\ upsert' = [upsert EXCEPT ![s] = [o \in Orgs |-> UpsertAt("notListed")]]
    /\ \E lost \in SUBSET {e \in Editors : InFlight(e)} :
        /\ pc' = [e \in Editors |-> IF e \in lost THEN "done" ELSE pc[e]]
        /\ reply' = [e \in Editors |-> IF e \in lost THEN -1 ELSE reply[e]]
    /\ UNCHANGED <<storage, edit, known, base, tries, shown, written, lock>>

Restart(s) ==
    /\ phase[s] = "down"
    /\ Goto(s, "lock")
    /\ UNCHANGED <<storage, puts, upsert, lock, faults>>

\* Nothing in the code releases the lock of a dead server; an operator may.
ReleaseAbandoned(s) ==
    /\ lock = s
    /\ phase[s] \in {"lock", "done", "down"}
    /\ lock' = Nobody
    /\ UNCHANGED <<storage, puts, phase, upsert, faults>>

Put(e) == UpdateFind(e) \/ UpdateWrite(e) \/ Confirm(e)
Upsert(s, o) == UpsertFind(s, o) \/ UpsertInsert(s, o) \/ UpsertReread(s, o) \/ UpsertWrite(s, o)
Migrate(s) ==
    \/ Lock(s) \/ ListSubmissions(s) \/ UpsertsEnd(s) \/ Free(s)
    \/ \E o \in Orgs : Upsert(s, o)

Next ==
    \/ \E e \in Editors : GetById(e) \/ Put(e) \/ PutDatabaseError(e)
    \/ \E s \in Servers :
        \/ Migrate(s) \/ ListDatabaseError(s) \/ Crash(s) \/ Restart(s) \/ ReleaseAbandoned(s)
        \/ \E o \in Orgs : UpsertDatabaseError(s, o)
    \/ \E d \in Secondaries, o \in Orgs : Replicate(d, o)

Spec == Init /\ [][Next]_vars

\* The event loop runs what it started, and secondaries catch up.  No admin has
\* to come, nobody has to restart a server or clear a lock.
Fairness ==
    /\ \A e \in Editors : WF_vars(Put(e))
    /\ \A s \in Servers : WF_vars(Migrate(s))
    /\ \A s \in Servers, o \in Orgs : WF_vars(Upsert(s, o))
    /\ \A d \in Secondaries, o \in Orgs : WF_vars(Replicate(d, o))
--------------------------------------------------------------------------------
(* Correctness *)

\* Each document as one register on which every update is a single atomic step.
Store == INSTANCE OrganisationStore WITH
    doc <- [o \in Orgs |-> IF history[o] = <<>> THEN Nobody ELSE Latest(o)],
    outcome <- [e \in Editors |->
        IF written[e] > 0 THEN "applied"
        ELSE IF reply[e] \in {404, 409} THEN "refused" ELSE "open"]

\* With reads from the primary, read-merge-write with a version filter is atomic:
\* no update drops what another one stored, however PUTs and migrations overlap
\* and crash, and a PUT that is refused leaves nothing behind (mongodb.js update,
\* upsert; the contract tests call it "prevents lost updates").
ImplementsStore == Store!Spec

IsPrefix(s, t) == Len(s) <= Len(t) /\ SubSeq(t, 1, Len(s)) = s

\* The data model's promise on status histories: "Existing entries are never
\* modified, only new entries are added", in any order of PUTs and migrations.
StatusHistoryOnlyGrows ==
    \A o \in Orgs : \A i \in 2..Len(history[o]), p \in Parts :
        IsPrefix(history[o][i - 1].statuses[p], history[o][i].statuses[p])

\* State i of the document has the change of PUT e in it, unless a later writer of
\* the same part replaced it.
HasTheEdit(e, i) ==
    \/ history[OrgOf(e)][i].content[edit[e].part] = e
    \/ \E q \in Editors \ {e} :
        OrgOf(q) = OrgOf(e) /\ edit[q].part = edit[e].part /\ written[q] \in written[e]..i
    \/ edit[e].part = Top /\ i > written[e]

\* The document a PUT answers with has the change in it.
AnswerShowsTheEdit ==
    \A e \in Editors : reply[e] = 200 =>
        written[e] \in 1..shown[e] /\ HasTheEdit(e, shown[e])

Migrating(s) == phase[s] \in {"list", "upserts", "free"}

\* Servers starting together do not migrate together.
OneMigrationAtATime ==
    \A s \in Servers : Migrating(s) => lock = s

\* Every PUT is answered and every migration run ends.
EverythingEnds ==
    /\ \A e \in Editors : InFlight(e) ~> pc[e] = "done"
    /\ \A s \in Servers : phase[s] \in {"lock", "list", "upserts", "free"} ~> phase[s] \in {"done", "down"}

\* The lock comes back when listing or upserting failed, so that the next start
\* can migrate (short of a crash or a failing free()).
LockIsReturned == \A s \in Servers : (lock = s) ~> (lock = Nobody)
--------------------------------------------------------------------------------
(* The invariant of the proofs *)

\* All reads of the repository are answered by one and the same node.
OneNode == ReadFrom = "primary" \/ \A d1, d2 \in Secondaries : d1 = d2

ReadsAreCommitted ==
    /\ \A d \in Secondaries, o \in Orgs : applied[d][o] <= Len(history[o])
    /\ \A e \in Editors : pc[e] = "write" => base[e] \in 1..Len(history[OrgOf(e)])
    /\ \A s \in Servers, o \in Orgs :
        upsert[s][o].at = "write" => upsert[s][o].base \in 1..Len(history[o])

\* What a PUT has done, by the place where it is.
PutsInOrder ==
    \A e \in Editors :
        /\ pc[e] \in {"get", "find", "write"} => written[e] = 0 /\ tries[e] = 0
        /\ pc[e] = "confirm" => written[e] > 0 /\ tries[e] < MaxRetries
        /\ pc[e] # "done" => reply[e] = 0
        /\ written[e] <= Len(history[OrgOf(e)])

\* A version that was read is never newer than what can be read next, and so not
\* newer than the document that is merged into.
PutMovesForward(e) ==
    /\ InFlight(e) => \A i \in Readable(OrgOf(e)) : known[e] <= i
    /\ pc[e] = "write" => known[e] <= base[e]

UpsertMovesForward(s, o) ==
    /\ upsert[s][o].at = "reread" => \A i \in Readable(o) : upsert[s][o].version <= i
    /\ upsert[s][o].at = "write" => upsert[s][o].version <= upsert[s][o].base

ReadsMoveForward ==
    /\ \A e \in Editors : PutMovesForward(e)
    /\ \A s \in Servers, o \in Orgs : UpsertMovesForward(s, o)

VersionsArePlaces ==
    \A o \in Orgs : \A i \in 1..Len(history[o]) : history[o][i].version = i

\* AnswerShowsTheEdit, from the moment the edit is stored.
StoredEditsStay ==
    \A e \in Editors :
        /\ written[e] > 0 =>
            /\ written[e] = known[e] + 1
            /\ \A i \in written[e]..Len(history[OrgOf(e)]) : HasTheEdit(e, i)
        /\ reply[e] = 200 => written[e] > 0 /\ shown[e] \in written[e]..Len(history[OrgOf(e)])

\* What holds whatever nodes are read, and what one node gives besides.
IInv ==
    /\ TypeOK
    /\ ReadsAreCommitted
    /\ PutsInOrder
    /\ OneMigrationAtATime
    /\ OneNode =>
        /\ ReadsMoveForward
        /\ VersionsArePlaces
        /\ StatusHistoryOnlyGrows
        /\ StoredEditsStay
================================================================================
