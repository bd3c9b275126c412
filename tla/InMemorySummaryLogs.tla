--------------------------- MODULE InMemorySummaryLogs --------------------------
(***************************************************************************)
(* The in-memory implementation of the summary logs repository with the    *)
(* validator that goes with it, beside MongoDB and the worker threads of   *)
(* SummaryLogs: the same handlers run over either.  A method never waits   *)
(* between a check and the write after it; reads are answered from a copy  *)
(* that a callback of setImmediate brings up to date; and a validation     *)
(* runs in the process that takes the requests, without a queue.           *)
(***************************************************************************)
EXTENDS SummaryLogs

CONSTANT Repositories   \* which implementations an instance looks at

ASSUME RepositoriesAssumption == Repositories \subseteq {"mongodb", "inmemory"}

VARIABLES
    repository,  \* the implementation that the service was given
    cached,      \* cached[l]: the version of document l in staleCache, 0 for none
    pending,     \* whether a callback that syncs the copy is scheduled
    validation   \* validation[r]: the validation that callback r started

memory == <<repository, cached, pending, validation>>

NotRunning == [IdleWorker EXCEPT !.at = "none"]

EitherInit ==
    /\ Init
    /\ repository \in Repositories
    /\ cached = [l \in Logs |-> 0]
    /\ pending = FALSE
    /\ validation = [r \in Requests |-> NotRunning]
--------------------------------------------------------------------------------
(* Storage and its copy; history[l] holds what storage had under l *)

MemoryInsert(l, doc) ==
    /\ IdIsFree(l)
    /\ Commit(l, doc)
    /\ cached' = [cached EXCEPT ![l] = 1]
    /\ UNCHANGED pending

MemoryUpdate(l, version, doc) ==
    /\ VersionMatches(l, version)
    /\ Commit(l, doc)
    /\ pending' = TRUE
    /\ UNCHANGED cached

\* scheduleStaleCacheSync
Sync ==
    /\ pending
    /\ cached' = [l \in Logs |-> Len(history[l])]
    /\ pending' = FALSE
    /\ UNCHANGED <<vars, repository, validation>>
--------------------------------------------------------------------------------
(* The handlers *)

MemoryFindExisting(r) ==
    /\ pc[r] = "find"
    /\ LET i == cached[LogOf(r)]
       IN  /\ read' = [read EXCEPT ![r] = i]
           /\ IF i > 0 /\ ~CanTransition(history[LogOf(r)][i].status, NewStatus(r))
              THEN Answer(r, 409)
              ELSE Goto(r, "write") /\ UNCHANGED reply
    /\ UNCHANGED <<storage, call, pools, seen, faults, memory>>

MemoryWriteUpload(r) ==
    /\ pc[r] = "write"
    /\ \/ read[r] = 0 /\ MemoryInsert(LogOf(r), InsertedDoc(r))
       \/ read[r] > 0 /\ MemoryUpdate(LogOf(r), Found(r).version, UploadedDoc(r))
    /\ AfterStore(r)
    /\ UNCHANGED <<applied, call, read, pools, seen, faults, repository, validation>>

\* update() looks for the document before it compares versions.
MemoryConflict(r) ==
    /\ pc[r] = "write"
    /\ \/ read[r] = 0 /\ ~IdIsFree(LogOf(r)) /\ Answer(r, 409)
       \/ /\ read[r] > 0
          /\ ~VersionMatches(LogOf(r), Found(r).version)
          /\ Answer(r, IF IdIsFree(LogOf(r)) THEN 404 ELSE 409)
    /\ UNCHANGED <<storage, call, read, pools, seen, faults, memory>>

MemoryPoll(l) ==
    /\ seen' = [seen EXCEPT ![l] = Told(l, cached[l])]
    /\ UNCHANGED <<storage, handlers, pools, faults, memory>>
--------------------------------------------------------------------------------
(* inline.js: the validation is started and not awaited; its errors are logged *)

StartInline(r) ==
    /\ pc[r] = "start"
    /\ validation' = [validation EXCEPT ![r] = IdleWorker]
    /\ Answer(r, 202)
    /\ UNCHANGED <<storage, call, read, pools, seen, faults, repository, cached, pending>>

InlineFind(r) ==
    /\ validation[r].at = "find"
    /\ validation' = [validation EXCEPT ![r] =
            IF cached[LogOf(r)] = 0 THEN NotRunning
            ELSE [@ EXCEPT !.at = "check", !.read = cached[LogOf(r)]]]
    /\ UNCHANGED <<vars, repository, cached, pending>>

InlineChecked(r) == history[LogOf(r)][validation[r].read]

InlineCheck(r) ==
    /\ validation[r].at = "check"
    /\ \E v \in Verdicts :
        /\ v = "validated" => InlineChecked(r).file.uri # NoFile
        /\ IF v = "unsaveable" THEN Fail("emptyMessage") ELSE UNCHANGED faults
        /\ validation' = [validation EXCEPT ![r] = [@ EXCEPT !.at = "write", !.verdict = v]]
    /\ UNCHANGED <<storage, handlers, pools, seen, repository, cached, pending>>

InlineDoc(r) ==
    [Latest(LogOf(r)) EXCEPT
        !.version = IncVersion(Latest(LogOf(r))),
        !.status = validation[r].verdict,
        !.failureReason = SetIfGiven(IF validation[r].verdict = "invalid" THEN "given" ELSE "none", @),
        !.validation = InlineChecked(r).file.uri]

InlineWrite(r) ==
    /\ validation[r].at = "write"
    /\ \/ /\ validation[r].verdict # "unsaveable"
          /\ MemoryUpdate(LogOf(r), InlineChecked(r).version, InlineDoc(r))
       \/ /\ \/ validation[r].verdict = "unsaveable"
             \/ ~VersionMatches(LogOf(r), InlineChecked(r).version)
          /\ UNCHANGED <<history, cached, pending>>
    /\ validation' = [validation EXCEPT ![r] = NotRunning]
    /\ UNCHANGED <<applied, handlers, pools, seen, faults, repository>>

\* With MongoDB a step is one of SummaryLogs, and there is no copy.
OnMongo(A) == repository = "mongodb" /\ A /\ UNCHANGED memory
InMemory(A) == repository = "inmemory" /\ A

EitherNext ==
    \/ \E r \in Requests :
        \/ OnMongo(Receive(r)) \/ OnMongo(FindExisting(r)) \/ OnMongo(WriteUpload(r))
        \/ OnMongo(InsertConflict(r)) \/ OnMongo(UpdateConflict(r)) \/ OnMongo(Reread(r))
        \/ OnMongo(StartValidation(r)) \/ OnMongo(HandlerDatabaseError(r))
        \/ InMemory(Receive(r) /\ UNCHANGED memory) \/ InMemory(MemoryFindExisting(r))
        \/ InMemory(MemoryWriteUpload(r)) \/ InMemory(MemoryConflict(r)) \/ InMemory(StartInline(r))
        \/ InMemory(InlineFind(r)) \/ InMemory(InlineCheck(r)) \/ InMemory(InlineWrite(r))
    \/ \E s \in Servers :
        \/ OnMongo(WorkerFind(s)) \/ OnMongo(WorkerCheck(s)) \/ OnMongo(WorkerWrite(s))
        \/ OnMongo(WorkerDatabaseError(s)) \/ OnMongo(Crash(s)) \/ OnMongo(Stop(s))
    \/ \E d \in Secondaries, l \in Logs : OnMongo(Replicate(d, l))
    \/ \E l \in Logs : OnMongo(Poll(l)) \/ InMemory(MemoryPoll(l))
    \/ InMemory(Sync)

EitherSpec == EitherInit /\ [][EitherNext]_<<vars, memory>>
--------------------------------------------------------------------------------
(* The invariant of the proofs *)

MemoryTypeOK ==
    /\ cached \in [Logs -> Nat] /\ pending \in BOOLEAN
    /\ validation \in [Requests ->
            [at : {"none", "find", "check", "write"}, read : Nat, verdict : Verdicts]]

CopyLags == \A l \in Logs : cached[l] <= Len(history[l])

Running(r) == validation[r].at # "none"

\* A validation that runs is that of the callback which was answered 202 for the
\* log, and the log waits for it; what it has read is a version of the log.
ValidationsAreOwed ==
    \A r \in Requests :
        /\ pc[r] = "start" => NewStatus(r) = "validating"
        /\ Running(r) =>
             /\ reply[r] = 202 /\ NewStatus(r) = "validating"
             /\ Status(LogOf(r)) = "validating"
             /\ validation[r].at # "find" => validation[r].read \in 1..Len(history[LogOf(r)])

\* The copy never shows less than clients were told.
CopyShowsProgress == \A l \in Logs : Progress(seen[l]) <= Progress(Told(l, cached[l]))

MemoryInv ==
    /\ MemoryTypeOK
    /\ \A s \in Servers : tasks[s] = <<>>
    /\ CopyLags
    /\ ValidationsAreOwed
    /\ StatusesMoveForward
    /\ CopyShowsProgress
    /\ NeverNotFound

\* What is proved, and checked, of the service over either repository.
EitherInv ==
    /\ IInv
    /\ repository \in Repositories
    /\ repository = "inmemory" => MemoryInv

\* Duplicate callbacks never have two validations of one log run in the process,
\* and none runs while a handler is about to start another.
OneInlineValidation ==
    repository = "inmemory" =>
        \A q, r \in Requests : Running(r) /\ LogOf(q) = LogOf(r) =>
            pc[q] # "start" /\ (Running(q) => q = r)
================================================================================
