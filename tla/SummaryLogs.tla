------------------------------ MODULE SummaryLogs ------------------------------
(***************************************************************************)
(* The life of summary log documents in the `summary-logs` collection: the *)
(* upload-completed callback handler, the worker-thread validator it       *)
(* starts, the status endpoint, and the MongoDB deployment underneath      *)
(* (one primary that takes the writes, secondaries that answer the reads). *)
(*                                                                         *)
(* Every `await` of the code that crosses the process boundary ends an     *)
(* action, so handlers of several server instances, the validators and     *)
(* replication interleave freely.  A document is kept as the sequence of   *)
(* its committed versions; what a read returned is the index of a version. *)
(***************************************************************************)
EXTENDS Integers, Sequences

CONSTANTS
    Logs,         \* summary log ids
    Servers,      \* instances of the service, each with its own worker pool
    Secondaries,  \* MongoDB secondaries
    Requests,     \* upload-completed callbacks the uploader will send
    FileIds,      \* ids of uploaded files
    NoFile,       \* absence of a file, of a uri, of validation results
    ReadFrom,     \* mongoOptions.readPreference: "secondary" or "primary"
    FaultKinds,   \* the faults this instance admits
    MaxFaults     \* bound: how many faults may happen

ASSUME NoFileAssumption == NoFile \notin FileIds
ASSUME ReadFromAssumption == ReadFrom \in {"primary", "secondary"}
ASSUME FaultAssumption ==
    /\ FaultKinds \subseteq {"crash", "stop", "database", "emptyMessage"}
    /\ MaxFaults \in Nat

Statuses == {"preprocessing", "rejected", "validating", "invalid", "validated"}
FinalStatuses == {"rejected", "invalid", "validated"}
UploadStatuses == {"pending", "rejected", "complete"}
Verdicts == {"validated", "invalid", "unsaveable"}

Uploads == [fileId : FileIds, fileStatus : UploadStatuses]
Calls == [log : Logs, server : Servers, upload : Uploads]
Files == [id : FileIds, status : UploadStatuses, uri : FileIds \cup {NoFile}]

Reasons == {"none", "given"}

\* A stored document.  `validation` stands for the issues a validator wrote:
\* it names the file content they describe.
Docs == [version : Nat,
         status : Statuses,
         file : Files,
         failureReason : Reasons,
         validation : FileIds \cup {NoFile}]

VARIABLES
    history,  \* history[l]: the committed versions of document l, oldest first
    applied,  \* applied[d][l]: how many of them secondary d has replayed
    call,     \* call[r]: log, server and payload of callback r (never changes)
    pc,       \* pc[r]: where the handler of callback r is
    read,     \* read[r]: version the handler found, 0 for none
    reply,    \* reply[r]: HTTP status answered; 0 not yet, -1 connection lost
    tasks,    \* tasks[s]: Piscina tasks of server s, the head is running
    worker,   \* worker[s]: the one worker thread of server s
    seen,     \* seen[l]: the last status a client was told for log l
    faults    \* how many faults happened

vars == <<history, applied, call, pc, read, reply, tasks, worker, seen, faults>>
storage == <<history, applied>>
handlers == <<call, pc, read, reply>>
pools == <<tasks, worker>>

PCs == {"unsent", "find", "write", "reread", "start", "done"}
Replies == {-1, 0, 202, 404, 409, 500}
IdleWorker == [at |-> "find", read |-> 0, verdict |-> "invalid"]
WorkerStates == [at : {"find", "check", "write"}, read : Nat, verdict : Verdicts]

TypeOK ==
    /\ history \in [Logs -> Seq(Docs)]
    /\ applied \in [Secondaries -> [Logs -> Nat]]
    /\ call \in [Requests -> Calls]
    /\ pc \in [Requests -> PCs]
    /\ read \in [Requests -> Nat]
    /\ reply \in [Requests -> Replies]
    /\ tasks \in [Servers -> Seq(Logs)]
    /\ worker \in [Servers -> WorkerStates]
    /\ seen \in [Logs -> Statuses \cup {"unpolled"}]
    /\ faults \in Nat

Init ==
    /\ history = [l \in Logs |-> <<>>]
    /\ applied = [d \in Secondaries |-> [l \in Logs |-> 0]]
    /\ call \in [Requests -> Calls]
    /\ pc = [r \in Requests |-> "unsent"]
    /\ read = [r \in Requests |-> 0]
    /\ reply = [r \in Requests |-> 0]
    /\ tasks = [s \in Servers |-> <<>>]
    /\ worker = [s \in Servers |-> IdleWorker]
    /\ seen = [l \in Logs |-> "unpolled"]
    /\ faults = 0
--------------------------------------------------------------------------------
(* Status rules (domain/summary-logs/status.js) *)

UploadStatusToSummaryLogStatus ==
    [rejected |-> "rejected", pending |-> "preprocessing", complete |-> "validating"]

DetermineStatusFromUpload(fileStatus) == UploadStatusToSummaryLogStatus[fileStatus]

ValidTransitions ==
    [preprocessing |-> {"preprocessing", "rejected", "validating"},
     validating |-> {"validated", "invalid"},
     rejected |-> {}, validated |-> {}, invalid |-> {}]

\* Mutant: only a final status is protected.
CanTransitionUnlessFinal(from, to) == from \notin FinalStatuses

CanTransition(from, to) == to \in ValidTransitions[from]

\* failureReason is written by the upload handler only for a rejected upload.
DetermineFailureReason(status) == IF status = "rejected" THEN "given" ELSE "none"

\* A field is in $set only when it has a value.
SetIfGiven(new, old) == IF new = "none" THEN old ELSE new

DefaultStatus == "preprocessing"
--------------------------------------------------------------------------------
(* The repository and MongoDB (repositories/summary-logs/mongodb.js) *)

Latest(l) == history[l][Len(history[l])]
Status(l) == IF history[l] = <<>> THEN "absent" ELSE Latest(l).status

\* What findOne on log l can return: a secondary answers from what it replayed.
Readable(l) ==
    IF ReadFrom = "primary" THEN {Len(history[l])}
    ELSE {applied[d][l] : d \in Secondaries}

\* Mutant: an insert that replaces.
IdIsAlwaysFree(l) == TRUE

\* insertOne succeeds only when the _id is new.
IdIsFree(l) == history[l] = <<>>

\* Mutant: the filter is {_id} alone.
AnyVersionMatches(l, version) == history[l] # <<>>

\* The filter of updateOne: {_id, version}.
VersionMatches(l, version) == history[l] # <<>> /\ Latest(l).version = version

\* updateOne's $set and $inc, applied to the document on the primary.
IncVersion(doc) == doc.version + 1

Commit(l, doc) == history' = [history EXCEPT ![l] = Append(@, doc)]

\* Replication: secondary d replays the next version of document l.
Replicate(d, l) ==
    /\ applied[d][l] < Len(history[l])
    /\ applied' = [applied EXCEPT ![d][l] = @ + 1]
    /\ UNCHANGED <<history, handlers, pools, seen, faults>>

CanFail(kind) == kind \in FaultKinds /\ faults < MaxFaults
Fail(kind) == CanFail(kind) /\ faults' = faults + 1
--------------------------------------------------------------------------------
(* POST .../upload-completed *)

LogOf(r) == call[r].log
NewStatus(r) == DetermineStatusFromUpload(call[r].upload.fileStatus)
Found(r) == history[LogOf(r)][read[r]]

\* Mutant: the uri is set whatever the scan said.
BuildFileDataWithUri(upload, existingUri) ==
    [id |-> upload.fileId, status |-> upload.fileStatus, uri |-> upload.fileId]

\* An earlier uri survives the spread of the existing file.
BuildFileData(upload, existingUri) ==
    [id |-> upload.fileId,
     status |-> upload.fileStatus,
     uri |-> IF upload.fileStatus = "complete" THEN upload.fileId ELSE existingUri]

InsertedDoc(r) ==
    [version |-> 1,
     status |-> NewStatus(r),
     file |-> BuildFileData(call[r].upload, NoFile),
     failureReason |-> DetermineFailureReason(NewStatus(r)),
     validation |-> NoFile]

\* The file is built from the version the handler found, the rest of the
\* document is whatever the primary holds.
UploadedDoc(r) ==
    [Latest(LogOf(r)) EXCEPT
        !.version = IncVersion(Latest(LogOf(r))),
        !.status = NewStatus(r),
        !.file = BuildFileData(call[r].upload, Found(r).file.uri),
        !.failureReason = SetIfGiven(DetermineFailureReason(NewStatus(r)), @)]

Goto(r, place) == pc' = [pc EXCEPT ![r] = place]
Answer(r, code) == Goto(r, "done") /\ reply' = [reply EXCEPT ![r] = code]

Receive(r) ==
    /\ pc[r] = "unsent"
    /\ Goto(r, "find")
    /\ UNCHANGED <<storage, call, read, reply, pools, seen, faults>>

\* findById, then transitionStatus on what it returned.
FindExisting(r) ==
    /\ pc[r] = "find"
    /\ \E i \in Readable(LogOf(r)) :
        /\ read' = [read EXCEPT ![r] = i]
        /\ IF i > 0 /\ ~CanTransition(history[LogOf(r)][i].status, NewStatus(r))
           THEN Answer(r, 409)
           ELSE Goto(r, "write") /\ UNCHANGED reply
    /\ UNCHANGED <<storage, call, pools, seen, faults>>

\* insert or update reaching the primary; false when the primary refuses it.
StoreUpload(r) ==
    \/ /\ read[r] = 0
       /\ IdIsFree(LogOf(r))
       /\ Commit(LogOf(r), InsertedDoc(r))
    \/ /\ read[r] > 0
       /\ VersionMatches(LogOf(r), Found(r).version)
       /\ Commit(LogOf(r), UploadedDoc(r))

\* After the write a log that is now validating is handed to the pool.
AfterStore(r) ==
    IF NewStatus(r) = "validating" THEN Goto(r, "start") /\ UNCHANGED reply
    ELSE Answer(r, 202)

WriteUpload(r) ==
    /\ pc[r] = "write"
    /\ StoreUpload(r)
    /\ AfterStore(r)
    /\ UNCHANGED <<applied, call, read, pools, seen, faults>>

InsertConflict(r) ==
    /\ pc[r] = "write"
    /\ read[r] = 0
    /\ ~IdIsFree(LogOf(r))
    /\ Answer(r, 409)
    /\ UNCHANGED <<storage, call, read, pools, seen, faults>>

UpdateConflict(r) ==
    /\ pc[r] = "write"
    /\ read[r] > 0
    /\ ~VersionMatches(LogOf(r), Found(r).version)
    /\ Goto(r, "reread")
    /\ UNCHANGED <<storage, call, read, reply, pools, seen, faults>>

\* Mutant: the two outcomes of the second read are swapped.
RereadSwapped(r) ==
    /\ pc[r] = "reread"
    /\ \E i \in Readable(LogOf(r)) : Answer(r, IF i = 0 THEN 409 ELSE 404)
    /\ UNCHANGED <<storage, call, read, pools, seen, faults>>

\* update() tells "not found" from "conflict" with a second read.
Reread(r) ==
    /\ pc[r] = "reread"
    /\ \E i \in Readable(LogOf(r)) : Answer(r, IF i = 0 THEN 404 ELSE 409)
    /\ UNCHANGED <<storage, call, read, pools, seen, faults>>

\* summaryLogsValidator.validate: fire and forget, then the 202.
StartValidation(r) ==
    /\ pc[r] = "start"
    /\ tasks' = [tasks EXCEPT ![call[r].server] = Append(@, LogOf(r))]
    /\ Answer(r, 202)
    /\ UNCHANGED <<storage, call, read, worker, seen, faults>>

\* The driver reports an error; a write may have reached the primary anyway
\* (retryWrites is false).  Anything that is not a Boom error becomes a 500.
HandlerDatabaseError(r) ==
    /\ Fail("database")
    /\ \/ pc[r] \in {"find", "write", "reread"} /\ UNCHANGED history
       \/ pc[r] = "write" /\ StoreUpload(r)
    /\ Answer(r, 500)
    /\ UNCHANGED <<applied, call, read, pools, seen>>
--------------------------------------------------------------------------------
(* The worker thread (validate.js run by piscina.js): an error of any kind is *)
(* logged and the task is over.                                               *)

Task(s) == Head(tasks[s])
Checked(s) == history[Task(s)][worker[s].read]

EndTask(s) ==
    /\ tasks' = [tasks EXCEPT ![s] = Tail(@)]
    /\ worker' = [worker EXCEPT ![s] = IdleWorker]

WorkerFind(s) ==
    /\ tasks[s] # <<>>
    /\ worker[s].at = "find"
    /\ \E i \in Readable(Task(s)) :
        IF i = 0 THEN EndTask(s)
        ELSE /\ worker' = [worker EXCEPT ![s] = [@ EXCEPT !.at = "check", !.read = i]]
             /\ UNCHANGED tasks
    /\ UNCHANGED <<storage, handlers, seen, faults>>

\* performValidationChecks.  A file without a uri cannot be fetched, which is
\* a fatal issue; an exception with an empty message is one that the update
\* schema refuses to store as failureReason.
WorkerCheck(s) ==
    /\ tasks[s] # <<>>
    /\ worker[s].at = "check"
    /\ \E v \in Verdicts :
        /\ v = "validated" => Checked(s).file.uri # NoFile
        /\ IF v = "unsaveable" THEN Fail("emptyMessage") ELSE UNCHANGED faults
        /\ worker' = [worker EXCEPT ![s] = [@ EXCEPT !.at = "write", !.verdict = v]]
    /\ UNCHANGED <<storage, handlers, tasks, seen>>

VerdictDoc(s) ==
    [Latest(Task(s)) EXCEPT
        !.version = IncVersion(Latest(Task(s))),
        !.status = worker[s].verdict,
        !.failureReason = SetIfGiven(IF worker[s].verdict = "invalid" THEN "given" ELSE "none", @),
        !.validation = Checked(s).file.uri]

\* Mutant: the update is not validated against the schema.
StoreAnyVerdict(s) ==
    /\ VersionMatches(Task(s), Checked(s).version)
    /\ Commit(Task(s), VerdictDoc(s))

StoreVerdict(s) ==
    /\ worker[s].verdict # "unsaveable"
    /\ VersionMatches(Task(s), Checked(s).version)
    /\ Commit(Task(s), VerdictDoc(s))

VerdictRefused(s) ==
    \/ worker[s].verdict = "unsaveable"
    \/ ~VersionMatches(Task(s), Checked(s).version)

WorkerWrite(s) ==
    /\ tasks[s] # <<>>
    /\ worker[s].at = "write"
    /\ StoreVerdict(s) \/ (VerdictRefused(s) /\ UNCHANGED history)
    /\ EndTask(s)
    /\ UNCHANGED <<applied, handlers, seen, faults>>

WorkerDatabaseError(s) ==
    /\ tasks[s] # <<>>
    /\ Fail("database")
    /\ \/ worker[s].at \in {"find", "write"} /\ UNCHANGED history
       \/ worker[s].at = "write" /\ StoreVerdict(s)
    /\ EndTask(s)
    /\ UNCHANGED <<applied, handlers, seen>>
--------------------------------------------------------------------------------
(* The process *)

InFlight(r) == pc[r] \notin {"unsent", "done"}

DropPool(s) ==
    /\ tasks' = [tasks EXCEPT ![s] = <<>>]
    /\ worker' = [worker EXCEPT ![s] = IdleWorker]

\* A crash loses the requests in flight and everything in the pool.
Crash(s) ==
    /\ Fail("crash")
    /\ LET lost == {r \in Requests : call[r].server = s /\ InFlight(r)}
       IN  /\ pc' = [r \in Requests |-> IF r \in lost THEN "done" ELSE pc[r]]
           /\ reply' = [r \in Requests |-> IF r \in lost THEN -1 ELSE reply[r]]
    /\ DropPool(s)
    /\ UNCHANGED <<storage, call, read, seen>>

\* An orderly stop waits for the requests, then destroys the pool.
Stop(s) ==
    /\ Fail("stop")
    /\ \A r \in Requests : call[r].server = s => ~InFlight(r)
    /\ DropPool(s)
    /\ UNCHANGED <<storage, handlers, seen>>

\* GET .../summary-logs/{id}: what it says of version i, and the request.
Told(l, i) == IF i = 0 THEN DefaultStatus ELSE history[l][i].status

Poll(l) ==
    /\ \E i \in Readable(l) : seen' = [seen EXCEPT ![l] = Told(l, i)]
    /\ UNCHANGED <<storage, handlers, pools, faults>>

Handle(r) ==
    \/ FindExisting(r) \/ WriteUpload(r) \/ InsertConflict(r)
    \/ UpdateConflict(r) \/ Reread(r) \/ StartValidation(r)

Work(s) == WorkerFind(s) \/ WorkerCheck(s) \/ WorkerWrite(s)

Next ==
    \/ \E r \in Requests : Receive(r) \/ Handle(r) \/ HandlerDatabaseError(r)
    \/ \E s \in Servers : Work(s) \/ WorkerDatabaseError(s) \/ Crash(s) \/ Stop(s)
    \/ \E d \in Secondaries, l \in Logs : Replicate(d, l)
    \/ \E l \in Logs : Poll(l)

Spec == Init /\ [][Next]_vars

\* A handler and a worker thread that can run do run (the event loop and the
\* thread are scheduled), and a secondary catches up.  Nothing makes the
\* uploader call, a client poll, or a fault happen.
Fairness ==
    /\ \A r \in Requests : WF_vars(Handle(r))
    /\ \A s \in Servers : WF_vars(Work(s))
    /\ \A d \in Secondaries, l \in Logs : WF_vars(Replicate(d, l))

FairSpec == Spec /\ Fairness
--------------------------------------------------------------------------------
(* Correctness *)

\* The lifecycle as the primary's documents show it.
Accepted(l) ==
    IF Status(l) \in {"absent", "preprocessing"} THEN NoFile ELSE Latest(l).file.id
Judged(l) == IF Status(l) = "absent" THEN NoFile ELSE Latest(l).validation

Lifecycle == INSTANCE SummaryLogLifecycle WITH
    phase <- [l \in Logs |-> Status(l)],
    accepted <- [l \in Logs |-> Accepted(l)],
    judged <- [l \in Logs |-> Judged(l)]

\* repo.update checks a version and never a status, and the statuses the
\* handler and the validator decide on may be stale: still every write that
\* commits is a step of the lifecycle (upload-completed/post.js, validate.js).
ImplementsLifecycle == Lifecycle!Spec

\* What the polling page of the design relies on: a log that reaches
\* `validating` reaches a final status.
ValidationConcludes ==
    \A l \in Logs : (Status(l) = "validating") ~> (Status(l) \in FinalStatuses)

\* The upload outcome a status comes from.
FileStatusOf(status) ==
    IF status = "preprocessing" THEN "pending"
    ELSE IF status = "rejected" THEN "rejected" ELSE "complete"

Concluded == {"invalid", "validated"}

ConsistentDoc(doc, i) ==
    /\ doc.version = i
    /\ doc.file.status = FileStatusOf(doc.status)
    /\ doc.file.uri = (IF doc.file.status = "complete" THEN doc.file.id ELSE NoFile)
    /\ doc.failureReason =
         (IF doc.status \in {"rejected", "invalid"} THEN "given" ELSE "none")
    /\ doc.validation = (IF doc.status \in Concluded THEN doc.file.id ELSE NoFile)

\* $set merges what a handler or a validator computed from an older read into
\* whatever the primary holds: still, in every committed version, the issues
\* stored with a verdict were found in the stored file, and uri, failureReason
\* and version agree with it and with the status.
DocumentsConsistent ==
    \A l \in Logs : \A i \in 1..Len(history[l]) : ConsistentDoc(history[l][i], i)

\* Duplicate `complete` callbacks, on one server or several, never have two
\* validations of a log pending at once, and one is pending only while the
\* stored log waits for its verdict.
OneValidationPerLog ==
    /\ \A q, r \in Requests :
        pc[q] = "start" /\ pc[r] = "start" /\ LogOf(q) = LogOf(r) => q = r
    /\ \A s, t \in Servers : \A i \in 1..Len(tasks[s]), j \in 1..Len(tasks[t]) :
        tasks[s][i] = tasks[t][j] => s = t /\ i = j
    /\ \A r \in Requests : pc[r] = "start" =>
        /\ Status(LogOf(r)) = "validating"
        /\ \A s \in Servers : \A i \in 1..Len(tasks[s]) : tasks[s][i] # LogOf(r)
    /\ \A s \in Servers : \A i \in 1..Len(tasks[s]) : Status(tasks[s][i]) = "validating"

DecidesUpload(r) == call[r].upload.fileStatus \in {"complete", "rejected"}

\* The outcome of a scan that was acknowledged with 202 is never overwritten by
\* a late, repeated or reordered callback: it is the file of the log for good,
\* and no second outcome is acknowledged for the same log.
AcknowledgedOutcomeStands ==
    \A r \in Requests : (reply[r] = 202 /\ DecidesUpload(r)) =>
        /\ Status(LogOf(r)) \notin {"absent", "preprocessing"}
        /\ Latest(LogOf(r)).file.id = call[r].upload.fileId
        /\ Latest(LogOf(r)).file.status = call[r].upload.fileStatus
        /\ \A q \in Requests \ {r} :
             LogOf(q) = LogOf(r) /\ DecidesUpload(q) => reply[q] # 202

\* A client stops polling at a final status: what it was told then is what is
\* stored from then on, however far the secondary that answered lagged.
FinalAnswerIsTrue ==
    \A l \in Logs : seen[l] \in FinalStatuses => Status(l) = seen[l]

Progress(status) ==
    CASE status = "unpolled" -> 0
      [] status = "preprocessing" -> 1
      [] status = "validating" -> 2
      [] status \in FinalStatuses -> 3

\* A client that polls one secondary never sees a log move back.
AnswersMoveForward ==
    [][\A l \in Logs : Progress(seen[l]) <= Progress(seen'[l])]_seen

\* The not-found error is for a log that is not there: update() is only called
\* for a log that a read returned, so that with one node to read from (a secondary
\* of several may lag behind the first read) it never answers 404.
NeverNotFound == \A r \in Requests : reply[r] # 404
--------------------------------------------------------------------------------
(* The inductive strengthening behind the invariants *)

\* What the nodes and processes have read is a version that was committed.
ReadsAreCommitted ==
    /\ \A d \in Secondaries, l \in Logs : applied[d][l] <= Len(history[l])
    /\ \A r \in Requests : read[r] <= Len(history[LogOf(r)])
    /\ \A s \in Servers : tasks[s] # <<>> /\ worker[s].at # "find" =>
        worker[s].read \in 1..Len(history[Task(s)])

\* An empty queue has no task half done.
IdleWhenEmpty == \A s \in Servers : tasks[s] = <<>> => worker[s].at = "find"

\* A handler about to update has checked the transition on what it read.
DecisionsAreLegal ==
    \A r \in Requests : pc[r] = "write" /\ read[r] > 0 =>
        CanTransition(Found(r).status, NewStatus(r))

\* Only the last version of a document can have a final status.
FinalIsLast ==
    \A l \in Logs : \A i \in 1..Len(history[l]) :
        history[l][i].status \in FinalStatuses => i = Len(history[l])

\* Only a handler that ended has answered.
UnansweredWhileRunning == \A r \in Requests : pc[r] # "done" => reply[r] = 0

\* The callback's outcome reached the primary and the sender will learn it did.
Stored(r) == (pc[r] = "start" \/ reply[r] = 202) /\ DecidesUpload(r)

\* AcknowledgedOutcomeStands, from the moment the outcome is stored.
StoredOutcomesStand ==
    \A r \in Requests : Stored(r) =>
        /\ Status(LogOf(r)) \notin {"absent", "preprocessing"}
        /\ Latest(LogOf(r)).file.id = call[r].upload.fileId
        /\ Latest(LogOf(r)).file.status = call[r].upload.fileStatus
        /\ \A q \in Requests : Stored(q) /\ LogOf(q) = LogOf(r) => q = r

\* The inductive invariant: the safety invariants above hold because handlers and
\* validators only ever act on committed versions, and a write that commits is
\* based on the last one (SummaryLogsProofs proves it, TLC checks it).
IInv ==
    /\ TypeOK
    /\ ReadsAreCommitted
    /\ IdleWhenEmpty
    /\ DecisionsAreLegal
    /\ DocumentsConsistent
    /\ OneValidationPerLog
    /\ FinalIsLast
    /\ UnansweredWhileRunning
    /\ StoredOutcomesStand
    /\ FinalAnswerIsTrue
--------------------------------------------------------------------------------
(* Reads from one node: what it answers only ever moves forward *)

OneNode == ReadFrom = "primary" \/ \A d1, d2 \in Secondaries : d1 = d2

ReadsMoveForward == \A r \in Requests : \A i \in Readable(LogOf(r)) : read[r] <= i

\* The second read of update() comes after one that found the log.
RereadsFollowAFind == \A r \in Requests : pc[r] = "reread" => read[r] > 0

StatusesMoveForward ==
    \A l \in Logs : \A i, j \in 1..Len(history[l]) :
        i <= j => Progress(history[l][i].status) <= Progress(history[l][j].status)

AnswersAreRead == \A l \in Logs : \A i \in Readable(l) : Progress(seen[l]) <= Progress(Told(l, i))

OneNodeInv ==
    /\ ReadsMoveForward
    /\ RereadsFollowAFind
    /\ StatusesMoveForward
    /\ AnswersAreRead
    /\ NeverNotFound
================================================================================
