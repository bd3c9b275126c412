--------------------------- MODULE SummaryLogsProofs ---------------------------
(***************************************************************************)
(* Proofs about SummaryLogs, for any number of logs, servers, secondaries, *)
(* callbacks and files, with or without faults, whatever node is read; and *)
(* in the end about the same service over the in-memory repository.        *)
(***************************************************************************)
EXTENDS InMemorySummaryLogs, TLAPS
--------------------------------------------------------------------------------
(* Lemmas about the operators *)

\* A commit adds one version to one document and touches nothing else.
LEMMA CommitAppends ==
    ASSUME history \in [Logs -> Seq(Docs)], NEW l \in Logs, NEW doc \in Docs,
           Commit(l, doc)
    PROVE  /\ history' \in [Logs -> Seq(Docs)]
           /\ Len(history[l])' = Len(history[l]) + 1
           /\ Len(history[l]) \in Nat
           /\ Latest(l)' = doc
           /\ Status(l)' = doc.status
           /\ history'[l] # <<>>
           /\ \A i \in 1..Len(history[l]) : history'[l][i] = history[l][i]
           /\ \A m \in Logs : m # l => /\ history'[m] = history[m]
                                       /\ Status(m)' = Status(m)
                                       /\ Latest(m)' = Latest(m)
<1>1. history' = [history EXCEPT ![l] = Append(history[l], doc)]
  BY DEF Commit
<1>2. history[l] \in Seq(Docs) /\ history'[l] = Append(history[l], doc)
  BY <1>1
<1>3. /\ Len(history[l]) \in Nat
      /\ Len(history'[l]) = Len(history[l]) + 1
      /\ history'[l][Len(history[l]) + 1] = doc
      /\ history'[l] # <<>>
      /\ \A i \in 1..Len(history[l]) : history'[l][i] = history[l][i]
  BY <1>2
<1>4. \A m \in Logs : m # l => history'[m] = history[m]
  BY <1>1
<1>5. history' \in [Logs -> Seq(Docs)]
  BY <1>1, <1>2
<1>6. Latest(l)' = doc /\ Status(l)' = doc.status
  BY <1>3 DEF Latest, Status
<1>7. \A m \in Logs : m # l => Status(m)' = Status(m) /\ Latest(m)' = Latest(m)
  BY <1>4 DEF Status, Latest
<1> QED BY <1>3, <1>4, <1>5, <1>6, <1>7

\* The last version is a document.
LEMMA LatestIsDoc ==
    ASSUME history \in [Logs -> Seq(Docs)], NEW l \in Logs, history[l] # <<>>
    PROVE  /\ Latest(l) \in Docs
           /\ Len(history[l]) \in 1..Len(history[l])
           /\ Latest(l) = history[l][Len(history[l])]
           /\ Status(l) = Latest(l).status
<1>1. history[l] \in Seq(Docs) /\ Len(history[l]) \in Nat /\ Len(history[l]) # 0
  OBVIOUS
<1>2. Len(history[l]) \in 1..Len(history[l])
  BY <1>1
<1> QED BY <1>1, <1>2 DEF Latest, Status

LEMMA VersionIsADoc ==
    ASSUME history \in [Logs -> Seq(Docs)], NEW l \in Logs,
           NEW i \in 1..Len(history[l])
    PROVE  history[l][i] \in Docs
  OBVIOUS

\* What an upload may turn a document into.
LEMMA UploadStatus ==
    ASSUME TypeOK, NEW r \in Requests
    PROVE  /\ call[r] \in Calls /\ LogOf(r) \in Logs
           /\ call[r].upload \in Uploads
           /\ NewStatus(r) \in {"preprocessing", "rejected", "validating"}
           /\ FileStatusOf(NewStatus(r)) = call[r].upload.fileStatus
           /\ DecidesUpload(r) <=> NewStatus(r) # "preprocessing"
           /\ call[r].upload.fileStatus = "complete" <=> NewStatus(r) = "validating"
<1>1. call[r] \in Calls
  BY DEF TypeOK
<1>2. call[r].upload \in Uploads /\ call[r].log \in Logs
  BY <1>1 DEF Calls
<1>3. call[r].upload.fileStatus \in {"pending", "rejected", "complete"}
  BY <1>2 DEF Uploads, UploadStatuses
<1> QED
  BY <1>1, <1>2, <1>3 DEF LogOf, NewStatus, DetermineStatusFromUpload,
                         UploadStatusToSummaryLogStatus, FileStatusOf, DecidesUpload

\* A legal transition to what an upload gives starts from preprocessing.
LEMMA LegalFromPreprocessing ==
    ASSUME NEW from \in Statuses, NEW to \in {"preprocessing", "rejected", "validating"},
           CanTransition(from, to)
    PROVE  from = "preprocessing"
  BY DEF Statuses, CanTransition, ValidTransitions
--------------------------------------------------------------------------------
(* The two writes that commit *)

\* An upload that reaches the primary finds the log absent or preprocessing,
\* although the handler decided on an older read.
LEMMA UploadCommits ==
    ASSUME IInv, NEW r \in Requests, pc[r] = "write", StoreUpload(r)
    PROVE  \E doc \in Docs :
              /\ Commit(LogOf(r), doc)
              /\ doc.status = NewStatus(r)
              /\ doc.file.id = call[r].upload.fileId
              /\ doc.file.status = call[r].upload.fileStatus
              /\ ConsistentDoc(doc, Len(history[LogOf(r)]) + 1)
              /\ Status(LogOf(r)) \in {"absent", "preprocessing"}
<1> DEFINE l == LogOf(r)  up == call[r].upload  n == Len(history[l])
<1>0. /\ l \in Logs /\ up \in Uploads /\ n \in Nat
      /\ NewStatus(r) \in {"preprocessing", "rejected", "validating"}
      /\ FileStatusOf(NewStatus(r)) = up.fileStatus
      /\ history[l] \in Seq(Docs)
  BY UploadStatus DEF IInv, TypeOK
<1>1. CASE read[r] = 0
  <2>1. IdIsFree(l) /\ Commit(l, InsertedDoc(r))
    BY <1>1 DEF StoreUpload
  <2>2. history[l] = <<>> /\ n = 0
    BY <2>1 DEF IdIsFree
  <2>3. InsertedDoc(r) \in Docs
    BY <1>0 DEF InsertedDoc, Docs, Files, Uploads, UploadStatuses, Statuses,
                BuildFileData, DetermineFailureReason, Reasons
  <2>4. ConsistentDoc(InsertedDoc(r), n + 1)
    BY <1>0, <2>2 DEF InsertedDoc, ConsistentDoc, BuildFileData, FileStatusOf,
                DetermineFailureReason, Concluded
  <2>5. Status(l) = "absent"
    BY <2>2 DEF Status
  <2> QED
    BY <2>1, <2>3, <2>4, <2>5 DEF InsertedDoc, BuildFileData
<1>2. CASE read[r] # 0
  <2>1. read[r] > 0 /\ VersionMatches(l, Found(r).version) /\ Commit(l, UploadedDoc(r))
    BY <1>2 DEF StoreUpload
  <2>2. read[r] \in 1..n
    BY <1>0, <2>1 DEF IInv, ReadsAreCommitted, TypeOK
  <2>3. history[l] # <<>> /\ Latest(l).version = Found(r).version
    BY <2>1 DEF VersionMatches
  <2>4. n \in 1..n /\ Latest(l) = history[l][n] /\ Latest(l) \in Docs
        /\ Status(l) = Latest(l).status
    BY <1>0, <2>3, LatestIsDoc DEF IInv, TypeOK
  <2>5. ConsistentDoc(Latest(l), n) /\ Found(r).version = read[r]
    BY <1>0, <2>2, <2>4 DEF IInv, DocumentsConsistent, ConsistentDoc, Found
  <2>6. read[r] = n /\ Found(r) = Latest(l)
    BY <2>3, <2>4, <2>5 DEF ConsistentDoc, Found
  <2>7. Latest(l).status = "preprocessing"
    <3>1. CanTransition(Latest(l).status, NewStatus(r))
      BY <2>1, <2>6 DEF IInv, DecisionsAreLegal
    <3> QED BY <3>1, <1>0, <2>4, LegalFromPreprocessing DEF Docs
  <2>8. Latest(l).file.uri = NoFile /\ Latest(l).failureReason = "none"
        /\ Latest(l).validation = NoFile /\ Latest(l).version = n
    BY <2>5, <2>7, <2>4 DEF ConsistentDoc, FileStatusOf, Concluded, Docs
  <2> DEFINE doc == UploadedDoc(r)
  <2>9. /\ doc.version = n + 1
        /\ doc.status = NewStatus(r)
        /\ doc.file = BuildFileData(up, NoFile)
        /\ doc.failureReason = DetermineFailureReason(NewStatus(r))
        /\ doc.validation = NoFile
        /\ doc \in Docs
    <3> DEFINE old == Latest(l)
    <3>1. /\ old \in [version : Nat, status : Statuses, file : Files,
                       failureReason : Reasons, validation : FileIds \cup {NoFile}]
          /\ old.version = n /\ old.failureReason = "none" /\ old.validation = NoFile
          /\ Found(r).file.uri = NoFile
      BY <2>4, <2>6, <2>8 DEF Docs
    <3>2. doc = [old EXCEPT
              !.version = old.version + 1, !.status = NewStatus(r),
              !.file = BuildFileData(up, NoFile),
              !.failureReason = SetIfGiven(DetermineFailureReason(NewStatus(r)), old.failureReason)]
      BY <3>1 DEF UploadedDoc, IncVersion
    <3>3. BuildFileData(up, NoFile) \in Files
      BY <1>0 DEF BuildFileData, Files, Uploads
    <3>4. SetIfGiven(DetermineFailureReason(NewStatus(r)), old.failureReason)
            = DetermineFailureReason(NewStatus(r))
          /\ DetermineFailureReason(NewStatus(r)) \in Reasons
      BY <3>1 DEF SetIfGiven, DetermineFailureReason, Reasons
    <3> HIDE DEF doc, old
    <3>5. doc = [version |-> n + 1, status |-> NewStatus(r),
                 file |-> BuildFileData(up, NoFile),
                 failureReason |-> DetermineFailureReason(NewStatus(r)),
                 validation |-> NoFile]
      BY <3>1, <3>2, <3>4
    <3> QED BY <1>0, <3>3, <3>4, <3>5 DEF Docs, Statuses
  <2>10. ConsistentDoc(doc, n + 1)
    BY <1>0, <2>9 DEF ConsistentDoc, BuildFileData, FileStatusOf, Concluded,
                         DetermineFailureReason
  <2> QED
    BY <2>1, <2>4, <2>7, <2>9, <2>10 DEF BuildFileData
<1> QED BY <1>1, <1>2

\* A document with its verdict.
LEMMA JudgedDoc ==
    ASSUME NEW n \in Nat, NEW old \in Docs, ConsistentDoc(old, n), old.status = "validating",
           NEW verdict \in {"validated", "invalid"},
           NEW doc,
           doc = [version |-> n + 1, status |-> verdict, file |-> old.file,
                  failureReason |-> IF verdict = "invalid" THEN "given" ELSE "none",
                  validation |-> old.file.id]
    PROVE  doc \in Docs /\ ConsistentDoc(doc, n + 1)
<1>1. old.file \in Files /\ old.file.id \in FileIds
      /\ old.file.status = "complete" /\ old.file.uri = old.file.id
  BY DEF Docs, Files, ConsistentDoc, FileStatusOf
<1> QED BY <1>1 DEF Docs, Statuses, Reasons, ConsistentDoc, FileStatusOf, Concluded

\* A verdict whose version matches is about the stored file, although the
\* validator read the log some time ago.
LEMMA VerdictIsConsistent ==
    ASSUME IInv, NEW l \in Logs, Status(l) = "validating", NEW i \in 1..Len(history[l]),
           VersionMatches(l, history[l][i].version),
           NEW verdict \in {"validated", "invalid"},
           NEW doc,
           doc = [Latest(l) EXCEPT
                    !.version = IncVersion(Latest(l)),
                    !.status = verdict,
                    !.failureReason = SetIfGiven(IF verdict = "invalid" THEN "given" ELSE "none", @),
                    !.validation = history[l][i].file.uri]
    PROVE  /\ doc \in Docs
           /\ doc.status \in Concluded
           /\ doc.file = Latest(l).file
           /\ ConsistentDoc(doc, Len(history[l]) + 1)
<1> DEFINE n == Len(history[l])  old == Latest(l)
           reason == IF verdict = "invalid" THEN "given" ELSE "none"
<1>1. history[l] # <<>>
  BY DEF Status
<1>2. n \in 1..n /\ old = history[l][n] /\ old \in Docs /\ old.status = "validating"
  BY <1>1, LatestIsDoc DEF IInv, TypeOK
<1>3. ConsistentDoc(old, n) /\ history[l][i].version = i
  <2>1. \A k \in 1..Len(history[l]) : ConsistentDoc(history[l][k], k)
    BY DEF IInv, DocumentsConsistent
  <2> QED BY <1>2, <2>1 DEF ConsistentDoc
<1>4. history[l][i] = old
  BY <1>2, <1>3 DEF ConsistentDoc, VersionMatches
<1>5. old.file.uri = old.file.id /\ old.failureReason = "none" /\ old.version = n
      /\ old.file.id \in FileIds /\ old.file.status = "complete"
  BY <1>2, <1>3 DEF ConsistentDoc, FileStatusOf, Docs, Files
<1>6. old \in [version : Nat, status : Statuses, file : Files,
               failureReason : Reasons, validation : FileIds \cup {NoFile}]
  BY <1>2 DEF Docs
<1>7. SetIfGiven(reason, old.failureReason) = reason /\ reason \in Reasons
  BY <1>5 DEF SetIfGiven, Reasons
<1>8. doc = [old EXCEPT
          !.version = old.version + 1, !.status = verdict,
          !.failureReason = SetIfGiven(reason, old.failureReason),
          !.validation = old.file.id]
  BY <1>4, <1>5 DEF IncVersion
<1> HIDE DEF old, reason
<1>9. doc = [version |-> n + 1, status |-> verdict, file |-> old.file,
             failureReason |-> reason, validation |-> old.file.id]
  BY <1>5, <1>6, <1>7, <1>8
<1>10. doc \in Docs /\ ConsistentDoc(doc, n + 1)
  <2>1. n \in Nat
    BY <1>2
  <2> HIDE DEF n
  <2> QED BY <1>2, <1>3, <1>9, <2>1, JudgedDoc DEF reason
<1> QED BY <1>9, <1>10 DEF Concluded, old

\* A verdict that reaches the primary finds the log validating, with the file
\* the validator checked.
LEMMA VerdictCommits ==
    ASSUME IInv, NEW s \in Servers, tasks[s] # <<>>, worker[s].at = "write",
           StoreVerdict(s)
    PROVE  /\ Task(s) \in Logs
           /\ Status(Task(s)) = "validating"
           /\ \E doc \in Docs :
              /\ Commit(Task(s), doc)
              /\ doc.status \in Concluded
              /\ doc.file = Latest(Task(s)).file
              /\ ConsistentDoc(doc, Len(history[Task(s)]) + 1)
<1>1. PICK l \in Logs : l = Task(s) /\ 1 \in 1..Len(tasks[s]) /\ l = tasks[s][1]
  BY DEF IInv, TypeOK, Task
<1>2. Status(l) = "validating"
  BY <1>1 DEF IInv, OneValidationPerLog
<1>3. PICK i \in 1..Len(history[l]) : i = worker[s].read
  BY <1>1 DEF IInv, ReadsAreCommitted
<1>4. PICK verdict \in {"validated", "invalid"} : verdict = worker[s].verdict
  BY DEF IInv, TypeOK, WorkerStates, Verdicts, StoreVerdict
<1>5. PICK doc : doc = VerdictDoc(s)
  OBVIOUS
<1>6. /\ VersionMatches(l, history[l][i].version) /\ Commit(l, doc)
      /\ doc = [Latest(l) EXCEPT
                  !.version = IncVersion(Latest(l)),
                  !.status = verdict,
                  !.failureReason = SetIfGiven(IF verdict = "invalid" THEN "given" ELSE "none", @),
                  !.validation = history[l][i].file.uri]
  BY <1>1, <1>3, <1>4, <1>5 DEF StoreVerdict, Checked, VerdictDoc
<1> QED BY <1>1, <1>2, <1>6, VerdictIsConsistent
--------------------------------------------------------------------------------
(* What every step keeps of the documents *)

LEMMA CommitKeeps ==
    ASSUME IInv, NEW l \in Logs, NEW doc \in Docs, Commit(l, doc),
           ConsistentDoc(doc, Len(history[l]) + 1), Status(l) \notin FinalStatuses
    PROVE  /\ history' \in [Logs -> Seq(Docs)]
           /\ DocumentsConsistent' /\ FinalIsLast'
           /\ \A m \in Logs : /\ Len(history[m]) \in Nat /\ Len(history'[m]) \in Nat
                              /\ Len(history[m]) <= Len(history'[m])
           /\ \A m \in Logs : \A i \in 1..Len(history[m]) :
                              /\ history'[m][i] = history[m][i]
                              /\ i \in 1..Len(history'[m])
<1> DEFINE n == Len(history[l])
<1>1. /\ history' \in [Logs -> Seq(Docs)]
      /\ Len(history'[l]) = n + 1
      /\ n \in Nat
      /\ history'[l] # <<>>
      /\ Latest(l)' = doc
      /\ \A i \in 1..n : history'[l][i] = history[l][i]
      /\ \A m \in Logs : m # l => history'[m] = history[m]
  BY CommitAppends DEF IInv, TypeOK
<1>2. history'[l][n + 1] = doc
  BY <1>1 DEF Latest
<1>3. \A m \in Logs : Len(history[m]) \in Nat
  BY DEF IInv, TypeOK
<1>4. DocumentsConsistent'
  <2> SUFFICES ASSUME NEW m \in Logs, NEW i \in 1..Len(history'[m])
               PROVE  ConsistentDoc(history'[m][i], i)
    BY DEF DocumentsConsistent, ConsistentDoc, FileStatusOf, Concluded
  <2>1. CASE m # l
    BY <1>1, <2>1 DEF IInv, DocumentsConsistent
  <2>2. CASE m = l /\ i \in 1..n
    BY <1>1, <2>2 DEF IInv, DocumentsConsistent
  <2>3. CASE m = l /\ i = n + 1
    BY <1>2, <2>3
  <2> QED BY <1>1, <2>1, <2>2, <2>3
<1>5. \A i \in 1..n : history[l][i].status \notin FinalStatuses
  <2> SUFFICES ASSUME NEW i \in 1..n, history[l][i].status \in FinalStatuses PROVE FALSE
    OBVIOUS
  <2>1. i = n
    BY DEF IInv, FinalIsLast
  <2>2. history[l] # <<>>
    BY <1>1, <2>1
  <2> QED BY <2>1, <2>2 DEF Status, Latest
<1>6. FinalIsLast'
  <2> SUFFICES ASSUME NEW m \in Logs, NEW i \in 1..Len(history'[m]),
                      history'[m][i].status \in FinalStatuses
               PROVE  i = Len(history'[m])
    BY DEF FinalIsLast
  <2>1. CASE m # l
    BY <1>1, <2>1 DEF IInv, FinalIsLast
  <2>2. CASE m = l
    BY <1>1, <1>5, <2>2
  <2> QED BY <2>1, <2>2
<1>7. \A m \in Logs : /\ Len(history[m]) \in Nat /\ Len(history'[m]) \in Nat
                      /\ Len(history[m]) <= Len(history'[m])
  <2> SUFFICES ASSUME NEW m \in Logs
               PROVE  /\ Len(history[m]) \in Nat /\ Len(history'[m]) \in Nat
                      /\ Len(history[m]) <= Len(history'[m])
    OBVIOUS
  <2>1. CASE m = l  BY <2>1, <1>1
  <2>2. CASE m # l  BY <2>2, <1>1, <1>3
  <2> QED BY <2>1, <2>2
<1>8. \A m \in Logs : \A i \in 1..Len(history[m]) :
          history'[m][i] = history[m][i] /\ i \in 1..Len(history'[m])
  <2> SUFFICES ASSUME NEW m \in Logs, NEW i \in 1..Len(history[m])
               PROVE  history'[m][i] = history[m][i] /\ i \in 1..Len(history'[m])
    OBVIOUS
  <2>1. history'[m][i] = history[m][i]
    BY <1>1
  <2>2. i \in 1..Len(history'[m])
    BY <1>3, <1>7
  <2> QED BY <2>1, <2>2
<1> QED BY <1>1, <1>4, <1>6, <1>7, <1>8

\* With the documents untouched, so is everything said about them alone.
LEMMA QuietKeeps ==
    ASSUME IInv, UNCHANGED <<history, call>>
    PROVE  /\ DocumentsConsistent' /\ FinalIsLast'
           /\ \A l \in Logs : Status(l)' = Status(l) /\ Latest(l)' = Latest(l)
           /\ \A r \in Requests : /\ LogOf(r)' = LogOf(r) /\ NewStatus(r)' = NewStatus(r)
                                  /\ DecidesUpload(r)' = DecidesUpload(r)
<1>1. DocumentsConsistent'
  BY DEF IInv, DocumentsConsistent, ConsistentDoc, FileStatusOf, Concluded
<1>2. FinalIsLast'
  BY DEF IInv, FinalIsLast
<1> QED
  BY <1>1, <1>2 DEF Status, Latest, LogOf, NewStatus, DecidesUpload

\* What a read returns is a committed version, or 0 for none.
LEMMA ReadableIsCommitted ==
    ASSUME IInv, NEW l \in Logs, NEW i \in Readable(l)
    PROVE  i \in Nat /\ i <= Len(history[l])
<1>1. Len(history[l]) \in Nat
  BY DEF IInv, TypeOK
<1>2. CASE ReadFrom = "primary"
  BY <1>1, <1>2 DEF Readable
<1>3. CASE ReadFrom # "primary"
  <2>1. PICK d \in Secondaries : i = applied[d][l]
    BY <1>3 DEF Readable
  <2> QED BY <2>1 DEF IInv, TypeOK, ReadsAreCommitted
<1> QED BY <1>2, <1>3
--------------------------------------------------------------------------------
(* Steps that leave the documents alone *)

\* Steps of a handler that only move its pc, its read or its reply and do not
\* start a validation or answer 202.
LEMMA QuietHandlerStep ==
    ASSUME IInv, NEW r \in Requests, TypeOK',
           UNCHANGED <<history, applied, call, tasks, worker, seen>>,
           \A q \in Requests \ {r} :
                pc'[q] = pc[q] /\ read'[q] = read[q] /\ reply'[q] = reply[q],
           pc'[r] # "start",
           reply'[r] # 202,
           pc'[r] # "done" => reply'[r] = 0,
           read'[r] <= Len(history[LogOf(r)]),
           pc'[r] = "write" /\ read'[r] > 0 =>
                CanTransition(history[LogOf(r)][read'[r]].status, NewStatus(r))
    PROVE  IInv'
<1>1. /\ DocumentsConsistent' /\ FinalIsLast'
      /\ \A l \in Logs : Status(l)' = Status(l) /\ Latest(l)' = Latest(l)
      /\ \A q \in Requests : /\ LogOf(q)' = LogOf(q) /\ NewStatus(q)' = NewStatus(q)
                             /\ DecidesUpload(q)' = DecidesUpload(q) /\ LogOf(q) \in Logs
  BY QuietKeeps, UploadStatus DEF IInv
<1>2. ReadsAreCommitted'
  BY <1>1 DEF IInv, ReadsAreCommitted, Task
<1>3. DecisionsAreLegal'
  BY <1>1 DEF IInv, DecisionsAreLegal, Found
<1>4. OneValidationPerLog'
  <2>1. \A q \in Requests : pc'[q] = "start" => pc[q] = "start"
    OBVIOUS
  <2>2. \A s \in Servers : \A i \in 1..Len(tasks[s]) : tasks[s][i] \in Logs
    BY DEF IInv, TypeOK
  <2> QED BY <1>1, <2>1, <2>2 DEF IInv, OneValidationPerLog
<1>5. UnansweredWhileRunning'
  BY DEF IInv, UnansweredWhileRunning
<1>6. StoredOutcomesStand'
  <2>1. \A q \in Requests : Stored(q)' => Stored(q)
    BY <1>1 DEF Stored
  <2> QED BY <1>1, <2>1 DEF IInv, StoredOutcomesStand
<1>7. FinalAnswerIsTrue'
  BY <1>1 DEF IInv, FinalAnswerIsTrue
<1>8. IdleWhenEmpty'
  BY DEF IInv, IdleWhenEmpty
<1> QED BY <1>1, <1>2, <1>3, <1>4, <1>5, <1>6, <1>7, <1>8 DEF IInv

LEMMA ReceiveInv ==
    ASSUME IInv, NEW r \in Requests, Receive(r)
    PROVE  IInv'
<1>1. TypeOK'
  BY DEF IInv, TypeOK, Receive, Goto, storage, pools, PCs
<1>2. pc \in [Requests -> PCs] /\ pc[r] = "unsent" /\ reply[r] = 0
  BY DEF IInv, TypeOK, UnansweredWhileRunning, Receive
<1>3. pc' = [pc EXCEPT ![r] = "find"]
      /\ UNCHANGED <<history, applied, call, read, reply, tasks, worker, seen>>
  BY DEF Receive, Goto, storage, pools
<1> QED BY <1>1, <1>2, <1>3, QuietHandlerStep DEF IInv, ReadsAreCommitted

\* A handler finds a committed version, or none.
LEMMA FindInv ==
    ASSUME IInv, NEW r \in Requests, pc[r] = "find",
           NEW i \in Nat, i <= Len(history[LogOf(r)]),
           read' = [read EXCEPT ![r] = i],
           IF i > 0 /\ ~CanTransition(history[LogOf(r)][i].status, NewStatus(r))
           THEN Answer(r, 409)
           ELSE Goto(r, "write") /\ UNCHANGED reply,
           UNCHANGED <<history, applied, call, tasks, worker, seen, faults>>
    PROVE  IInv'
<1> DEFINE l == LogOf(r)
<1>0. l \in Logs /\ pc[r] = "find" /\ reply[r] = 0
      /\ pc \in [Requests -> PCs] /\ read \in [Requests -> Nat]
      /\ reply \in [Requests -> Replies]
  BY UploadStatus DEF IInv, TypeOK, UnansweredWhileRunning
<1>1. /\ read' = [read EXCEPT ![r] = i]
      /\ IF i > 0 /\ ~CanTransition(history[l][i].status, NewStatus(r))
         THEN Answer(r, 409)
         ELSE Goto(r, "write") /\ UNCHANGED reply
  OBVIOUS
<1>2. i \in Nat /\ i <= Len(history[l])
  OBVIOUS
<1>3. UNCHANGED <<history, applied, call, tasks, worker, seen, faults>>
  OBVIOUS
<1>4. TypeOK'
  <2>1. read' \in [Requests -> Nat]
    BY <1>0, <1>1, <1>2
  <2>2. \/ pc' = [pc EXCEPT ![r] = "done"] /\ reply' = [reply EXCEPT ![r] = 409]
        \/ pc' = [pc EXCEPT ![r] = "write"] /\ reply' = reply
    BY <1>1 DEF Answer, Goto
  <2>3. pc' \in [Requests -> PCs] /\ reply' \in [Requests -> Replies]
    BY <1>0, <2>2 DEF PCs, Replies
  <2> QED BY <1>3, <2>1, <2>3 DEF IInv, TypeOK
<1>5. CASE i > 0 /\ ~CanTransition(history[l][i].status, NewStatus(r))
  <2>1. pc' = [pc EXCEPT ![r] = "done"] /\ reply' = [reply EXCEPT ![r] = 409]
    BY <1>1, <1>5 DEF Answer, Goto
  <2> QED BY <1>0, <1>1, <1>2, <1>3, <1>4, <2>1, QuietHandlerStep
<1>6. CASE ~(i > 0 /\ ~CanTransition(history[l][i].status, NewStatus(r)))
  <2>1. pc' = [pc EXCEPT ![r] = "write"] /\ reply' = reply
    BY <1>1, <1>6 DEF Goto
  <2> QED BY <1>0, <1>1, <1>2, <1>3, <1>4, <1>6, <2>1, QuietHandlerStep
<1> QED BY <1>5, <1>6

LEMMA FindExistingInv ==
    ASSUME IInv, NEW r \in Requests, FindExisting(r)
    PROVE  IInv'
<1>1. LogOf(r) \in Logs /\ pc[r] = "find"
  BY UploadStatus DEF IInv, FindExisting
<1>2. PICK i \in Readable(LogOf(r)) :
        /\ read' = [read EXCEPT ![r] = i]
        /\ IF i > 0 /\ ~CanTransition(history[LogOf(r)][i].status, NewStatus(r))
           THEN Answer(r, 409)
           ELSE Goto(r, "write") /\ UNCHANGED reply
  BY DEF FindExisting
<1>3. i \in Nat /\ i <= Len(history[LogOf(r)])
  BY <1>1, ReadableIsCommitted
<1>4. UNCHANGED <<history, applied, call, tasks, worker, seen, faults>>
  BY DEF FindExisting, storage, pools
<1> QED BY <1>1, <1>2, <1>3, <1>4, FindInv

\* A handler that gives up: a conflict, a missing document, a database error.
LEMMA AnswerInv ==
    ASSUME IInv, NEW r \in Requests, NEW code \in {404, 409, 500}, Answer(r, code),
           UNCHANGED <<history, applied, call, read, tasks, worker, seen>>,
           faults' \in Nat
    PROVE  IInv'
<1>0. pc' = [pc EXCEPT ![r] = "done"] /\ reply' = [reply EXCEPT ![r] = code]
  BY DEF Answer, Goto
<1>1. TypeOK'
  BY <1>0 DEF IInv, TypeOK, PCs, Replies
<1>2. pc \in [Requests -> PCs] /\ reply \in [Requests -> Replies]
  BY DEF IInv, TypeOK
<1> QED BY <1>0, <1>1, <1>2, QuietHandlerStep DEF IInv, ReadsAreCommitted

LEMMA InsertConflictInv ==
    ASSUME IInv, NEW r \in Requests, InsertConflict(r)
    PROVE  IInv'
  BY AnswerInv DEF InsertConflict, storage, pools, IInv, TypeOK

LEMMA UpdateConflictInv ==
    ASSUME IInv, NEW r \in Requests, UpdateConflict(r)
    PROVE  IInv'
<1>1. TypeOK'
  BY DEF IInv, TypeOK, UpdateConflict, Goto, storage, pools, PCs
<1>2. pc \in [Requests -> PCs] /\ pc[r] = "write" /\ reply[r] = 0
  BY DEF IInv, TypeOK, UnansweredWhileRunning, UpdateConflict
<1>3. pc' = [pc EXCEPT ![r] = "reread"]
      /\ UNCHANGED <<history, applied, call, read, reply, tasks, worker, seen>>
  BY DEF UpdateConflict, Goto, storage, pools
<1> QED BY <1>1, <1>2, <1>3, QuietHandlerStep DEF IInv, ReadsAreCommitted

LEMMA RereadInv ==
    ASSUME IInv, NEW r \in Requests, Reread(r)
    PROVE  IInv'
<1>1. PICK code \in {404, 409} : Answer(r, code)
  BY DEF Reread
<1>2. UNCHANGED <<history, applied, call, read, tasks, worker, seen>> /\ faults' \in Nat
  BY DEF Reread, storage, pools, IInv, TypeOK
<1> QED BY <1>1, <1>2, AnswerInv

\* Handing the log to the pool moves the one pending validation from the
\* handler to the pool.
LEMMA StartValidationInv ==
    ASSUME IInv, NEW r \in Requests, StartValidation(r)
    PROVE  IInv'
<1> DEFINE s == call[r].server  l == LogOf(r)
<1>0. /\ pc[r] = "start" /\ s \in Servers /\ l \in Logs
      /\ pc' = [pc EXCEPT ![r] = "done"] /\ reply' = [reply EXCEPT ![r] = 202]
      /\ tasks' = [tasks EXCEPT ![s] = Append(tasks[s], l)]
      /\ UNCHANGED <<history, applied, call, read, worker, seen, faults>>
      /\ pc \in [Requests -> PCs] /\ reply \in [Requests -> Replies]
      /\ tasks \in [Servers -> Seq(Logs)]
  BY UploadStatus DEF StartValidation, Answer, Goto, storage, IInv, TypeOK, Calls
<1>1. /\ DocumentsConsistent' /\ FinalIsLast'
      /\ \A m \in Logs : Status(m)' = Status(m) /\ Latest(m)' = Latest(m)
      /\ \A q \in Requests : /\ LogOf(q)' = LogOf(q) /\ NewStatus(q)' = NewStatus(q)
                             /\ DecidesUpload(q)' = DecidesUpload(q) /\ LogOf(q) \in Logs
  BY <1>0, QuietKeeps, UploadStatus DEF IInv
<1>2. /\ tasks[s] \in Seq(Logs) /\ Len(tasks[s]) \in Nat
      /\ Len(tasks'[s]) = Len(tasks[s]) + 1
      /\ tasks'[s][Len(tasks[s]) + 1] = l
      /\ \A i \in 1..Len(tasks[s]) : tasks'[s][i] = tasks[s][i]
      /\ \A t \in Servers : t # s => tasks'[t] = tasks[t]
  BY <1>0
<1>3. TypeOK'
  BY <1>0 DEF IInv, TypeOK, PCs, Replies
<1>4. ReadsAreCommitted'
  <2>1. tasks[s] # <<>> => Head(tasks'[s]) = Head(tasks[s])
    BY <1>0
  <2>2. tasks[s] = <<>> => worker[s].at = "find"
    BY <1>0 DEF IInv, IdleWhenEmpty
  <2> SUFFICES ASSUME NEW t \in Servers, tasks'[t] # <<>>, worker[t].at # "find"
               PROVE  worker[t].read \in 1..Len(history[Head(tasks'[t])])
    BY <1>0, <1>1 DEF IInv, ReadsAreCommitted, Task
  <2>3. tasks[t] # <<>> /\ Head(tasks'[t]) = Head(tasks[t])
    BY <1>2, <2>1, <2>2
  <2> QED BY <2>3 DEF IInv, ReadsAreCommitted, Task
<1>5. DecisionsAreLegal'
  BY <1>0, <1>1 DEF IInv, DecisionsAreLegal, Found
<1>6. OneValidationPerLog'
  <2>1. /\ Status(l) = "validating"
        /\ \A t \in Servers : \A i \in 1..Len(tasks[t]) : tasks[t][i] # l
        /\ \A q \in Requests : pc[q] = "start" /\ LogOf(q) = l => q = r
    BY <1>0 DEF IInv, OneValidationPerLog
  <2>2. \A q \in Requests : pc'[q] = "start" => q # r /\ pc[q] = "start"
    BY <1>0
  <2>3. \A t \in Servers : \A i \in 1..Len(tasks'[t]) :
            \/ i \in 1..Len(tasks[t]) /\ tasks'[t][i] = tasks[t][i]
            \/ t = s /\ i = Len(tasks[s]) + 1 /\ tasks'[t][i] = l
    BY <1>2
  <2>4. \A q \in Requests, t \in Requests :
          pc'[q] = "start" /\ pc'[t] = "start" /\ LogOf(q)' = LogOf(t)' => q = t
    BY <1>1, <2>2 DEF IInv, OneValidationPerLog
  <2>5. \A u, t \in Servers : \A i \in 1..Len(tasks'[u]), j \in 1..Len(tasks'[t]) :
            tasks'[u][i] = tasks'[t][j] => u = t /\ i = j
    BY <2>1, <2>3 DEF IInv, OneValidationPerLog
  <2>6. \A q \in Requests : pc'[q] = "start" =>
          /\ Status(LogOf(q))' = "validating"
          /\ \A t \in Servers : \A i \in 1..Len(tasks'[t]) : tasks'[t][i] # LogOf(q)'
    <3> SUFFICES ASSUME NEW q \in Requests, pc'[q] = "start"
                 PROVE  /\ Status(LogOf(q))' = "validating"
                        /\ \A t \in Servers : \A i \in 1..Len(tasks'[t]) :
                              tasks'[t][i] # LogOf(q)'
      OBVIOUS
    <3>1. q # r /\ pc[q] = "start" /\ LogOf(q) # l /\ LogOf(q)' = LogOf(q) /\ LogOf(q) \in Logs
      BY <1>1, <2>1, <2>2
    <3>2. Status(LogOf(q))' = "validating"
      BY <1>1, <3>1 DEF IInv, OneValidationPerLog, Status, Latest
    <3> QED BY <2>3, <3>1, <3>2 DEF IInv, OneValidationPerLog
  <2>7. \A t \in Servers : \A i \in 1..Len(tasks'[t]) : Status(tasks[t][i])' = "validating"
    <3> SUFFICES ASSUME NEW t \in Servers, NEW i \in 1..Len(tasks'[t])
                 PROVE  Status(tasks[t][i])' = "validating"
      OBVIOUS
    <3>1. CASE i \in 1..Len(tasks[t]) /\ tasks'[t][i] = tasks[t][i]
      <4>1. Status(tasks[t][i]) = "validating"
        BY <3>1 DEF IInv, OneValidationPerLog
      <4>2. Status(tasks[t][i])' = Status(tasks[t][i])
        BY <1>0, <3>1 DEF Status, Latest
      <4> QED BY <4>1, <4>2
    <3>2. CASE tasks'[t][i] = l
      BY <3>2, <1>0, <2>1 DEF Status, Latest
    <3> QED BY <2>3, <3>1, <3>2
  <2> QED BY <2>4, <2>5, <2>6, <2>7 DEF OneValidationPerLog
<1>7. UnansweredWhileRunning'
  BY <1>0 DEF IInv, UnansweredWhileRunning
<1>8. StoredOutcomesStand'
  <2>1. \A q \in Requests : Stored(q)' => Stored(q)
    BY <1>0, <1>1 DEF Stored
  <2> QED BY <1>0, <1>1, <2>1 DEF IInv, StoredOutcomesStand
<1>9. FinalAnswerIsTrue'
  BY <1>0, <1>1 DEF IInv, FinalAnswerIsTrue
<1>10. IdleWhenEmpty'
  <2>1. tasks'[s] # <<>>
    BY <1>2
  <2> QED BY <1>0, <1>2, <2>1 DEF IInv, IdleWhenEmpty
<1> QED BY <1>1, <1>3, <1>4, <1>5, <1>6, <1>7, <1>8, <1>9, <1>10 DEF IInv
--------------------------------------------------------------------------------
(* Steps that commit *)

\* The upload is stored; then the handler goes on, answers, or gives up.
LEMMA StoreUploadInv ==
    ASSUME IInv, NEW r \in Requests, pc[r] = "write", StoreUpload(r),
           UNCHANGED <<applied, call, read, tasks, worker, seen>>,
           pc' \in [Requests -> PCs], reply' \in [Requests -> Replies], faults' \in Nat,
           \A q \in Requests \ {r} : pc'[q] = pc[q] /\ reply'[q] = reply[q],
           pc'[r] \in {"start", "done"},
           pc'[r] = "start" => NewStatus(r) = "validating" /\ reply'[r] = 0
    PROVE  IInv'
<1> DEFINE l == LogOf(r)
<1>1. PICK doc \in Docs :
        /\ Commit(l, doc)
        /\ doc.status = NewStatus(r)
        /\ doc.file.id = call[r].upload.fileId
        /\ doc.file.status = call[r].upload.fileStatus
        /\ ConsistentDoc(doc, Len(history[l]) + 1)
        /\ Status(l) \in {"absent", "preprocessing"}
  BY UploadCommits
<1>2. /\ l \in Logs
      /\ NewStatus(r) \in {"preprocessing", "rejected", "validating"}
      /\ DecidesUpload(r) <=> NewStatus(r) # "preprocessing"
      /\ \A q \in Requests : /\ LogOf(q)' = LogOf(q) /\ NewStatus(q)' = NewStatus(q)
                             /\ DecidesUpload(q)' = DecidesUpload(q) /\ LogOf(q) \in Logs
  BY UploadStatus DEF IInv, LogOf, NewStatus, DecidesUpload
<1>3. Status(l) \notin FinalStatuses
  BY <1>1 DEF FinalStatuses
<1>4. /\ history' \in [Logs -> Seq(Docs)]
      /\ DocumentsConsistent' /\ FinalIsLast'
      /\ \A m \in Logs : /\ Len(history[m]) \in Nat /\ Len(history'[m]) \in Nat
                         /\ Len(history[m]) <= Len(history'[m])
      /\ \A m \in Logs : \A i \in 1..Len(history[m]) :
                         /\ history'[m][i] = history[m][i]
                         /\ i \in 1..Len(history'[m])
  BY <1>1, <1>2, <1>3, CommitKeeps
<1>5. /\ Latest(l)' = doc /\ Status(l)' = NewStatus(r)
      /\ \A m \in Logs : m # l => Status(m)' = Status(m) /\ Latest(m)' = Latest(m)
  BY <1>1, <1>2, CommitAppends DEF IInv, TypeOK
<1>6. TypeOK'
  BY <1>4 DEF IInv, TypeOK
<1>7. ReadsAreCommitted'
  <2>1. \A s \in Servers : tasks[s] # <<>> => Task(s) \in Logs
    BY DEF IInv, TypeOK, Task
  <2>2. \A d \in Secondaries, m \in Logs : applied[d][m] <= Len(history'[m])
    BY <1>4 DEF IInv, ReadsAreCommitted, TypeOK
  <2>3. \A q \in Requests : read[q] <= Len(history'[LogOf(q)])
    BY <1>2, <1>4 DEF IInv, ReadsAreCommitted, TypeOK
  <2>4. \A s \in Servers : tasks[s] # <<>> /\ worker[s].at # "find" =>
            worker[s].read \in 1..Len(history'[Task(s)])
    BY <1>4, <2>1 DEF IInv, ReadsAreCommitted
  <2> QED BY <1>2, <2>2, <2>3, <2>4 DEF ReadsAreCommitted, Task
<1>8. DecisionsAreLegal'
  <2> SUFFICES ASSUME NEW q \in Requests, pc'[q] = "write", read[q] > 0
               PROVE  CanTransition(history'[LogOf(q)][read[q]].status, NewStatus(q))
    BY <1>2 DEF DecisionsAreLegal, Found, CanTransition, ValidTransitions
  <2>1. q # r /\ pc[q] = "write"
    OBVIOUS
  <2>2. read[q] \in 1..Len(history[LogOf(q)])
    BY <1>2, <1>4 DEF IInv, ReadsAreCommitted, TypeOK
  <2> QED BY <1>2, <1>4, <2>1, <2>2 DEF IInv, DecisionsAreLegal, Found
<1>9. OneValidationPerLog'
  <2>1. \A q \in Requests : pc[q] = "start" => LogOf(q) # l
    BY <1>1 DEF IInv, OneValidationPerLog
  <2>2. \A s \in Servers : \A i \in 1..Len(tasks[s]) : tasks[s][i] # l /\ tasks[s][i] \in Logs
    BY <1>1 DEF IInv, OneValidationPerLog, TypeOK
  <2>3. \A q, t \in Requests :
          pc'[q] = "start" /\ pc'[t] = "start" /\ LogOf(q)' = LogOf(t)' => q = t
    BY <1>2, <2>1 DEF IInv, OneValidationPerLog
  <2>4. \A q \in Requests : pc'[q] = "start" =>
          /\ Status(LogOf(q))' = "validating"
          /\ \A s \in Servers : \A i \in 1..Len(tasks[s]) : tasks[s][i] # LogOf(q)
    <3> SUFFICES ASSUME NEW q \in Requests, pc'[q] = "start"
                 PROVE  /\ Status(LogOf(q))' = "validating"
                        /\ \A s \in Servers : \A i \in 1..Len(tasks[s]) : tasks[s][i] # LogOf(q)
      OBVIOUS
    <3>1. CASE q = r
      BY <1>2, <1>5, <2>2, <3>1 DEF Status, Latest
    <3>2. CASE q # r
      <4>1. pc[q] = "start" /\ LogOf(q) # l
        BY <2>1, <3>2
      <4>2. Status(LogOf(q)) = "validating"
        BY <4>1 DEF IInv, OneValidationPerLog
      <4>3. Status(LogOf(q))' = "validating"
        BY <1>2, <1>5, <4>1, <4>2 DEF Status, Latest
      <4> QED BY <4>1, <4>3 DEF IInv, OneValidationPerLog
    <3> QED BY <3>1, <3>2
  <2>5. \A s \in Servers : \A i \in 1..Len(tasks[s]) : Status(tasks[s][i])' = "validating"
    <3> SUFFICES ASSUME NEW s \in Servers, NEW i \in 1..Len(tasks[s])
                 PROVE  Status(tasks[s][i])' = "validating"
      OBVIOUS
    <3>1. Status(tasks[s][i]) = "validating" /\ tasks[s][i] \in Logs /\ tasks[s][i] # l
      BY <2>2 DEF IInv, OneValidationPerLog
    <3> QED BY <1>5, <3>1 DEF Status, Latest
  <2> QED BY <1>2, <2>3, <2>4, <2>5 DEF IInv, OneValidationPerLog
<1>10. UnansweredWhileRunning'
  BY DEF IInv, UnansweredWhileRunning
<1>11. StoredOutcomesStand'
  <2>1. \A q \in Requests : Stored(q) => LogOf(q) # l
    BY <1>1 DEF IInv, StoredOutcomesStand
  <2>2. \A q \in Requests : Stored(q)' => q = r \/ Stored(q)
    BY <1>2 DEF Stored
  <2> SUFFICES ASSUME NEW q \in Requests, Stored(q)'
               PROVE  /\ Status(LogOf(q))' \notin {"absent", "preprocessing"}
                      /\ Latest(LogOf(q))'.file.id = call[q].upload.fileId
                      /\ Latest(LogOf(q))'.file.status = call[q].upload.fileStatus
                      /\ \A t \in Requests : Stored(t)' /\ LogOf(t) = LogOf(q) => t = q
    BY <1>2 DEF StoredOutcomesStand
  <2>3. CASE q = r
    <3>1. NewStatus(r) # "preprocessing"
      BY <1>2, <2>3 DEF Stored
    <3>2. Latest(LogOf(q))' = doc /\ Status(LogOf(q))' = NewStatus(r)
      BY <1>2, <1>5, <2>3 DEF Status, Latest
    <3> QED BY <1>1, <1>2, <2>1, <2>2, <2>3, <3>1, <3>2
  <2>4. CASE q # r
    <3>1. Stored(q) /\ LogOf(q) # l
      BY <2>1, <2>2, <2>4
    <3>2. Latest(LogOf(q))' = Latest(LogOf(q)) /\ Status(LogOf(q))' = Status(LogOf(q))
      BY <1>2, <1>5, <3>1 DEF Status, Latest
    <3> QED BY <1>2, <2>2, <3>1, <3>2 DEF IInv, StoredOutcomesStand
  <2> QED BY <2>3, <2>4
<1>12. FinalAnswerIsTrue'
  BY <1>3, <1>5 DEF IInv, FinalAnswerIsTrue
<1>13. IdleWhenEmpty'
  BY DEF IInv, IdleWhenEmpty
<1> QED BY <1>4, <1>6, <1>7, <1>8, <1>9, <1>10, <1>11, <1>12, <1>13 DEF IInv

LEMMA WriteUploadInv ==
    ASSUME IInv, NEW r \in Requests, WriteUpload(r)
    PROVE  IInv'
<1>1. pc[r] = "write" /\ StoreUpload(r) /\ AfterStore(r) /\ reply[r] = 0
      /\ UNCHANGED <<applied, call, read, tasks, worker, seen, faults>>
      /\ pc \in [Requests -> PCs] /\ reply \in [Requests -> Replies] /\ faults \in Nat
  BY DEF WriteUpload, pools, IInv, TypeOK, UnansweredWhileRunning
<1>2. CASE NewStatus(r) = "validating"
  <2>1. pc' = [pc EXCEPT ![r] = "start"] /\ reply' = reply
    BY <1>1, <1>2 DEF AfterStore, Goto
  <2>2. pc' \in [Requests -> PCs]
    BY <1>1, <2>1 DEF PCs
  <2> QED BY <1>1, <1>2, <2>1, <2>2, StoreUploadInv
<1>3. CASE NewStatus(r) # "validating"
  <2>1. pc' = [pc EXCEPT ![r] = "done"] /\ reply' = [reply EXCEPT ![r] = 202]
    BY <1>1, <1>3 DEF AfterStore, Answer, Goto
  <2>2. pc' \in [Requests -> PCs] /\ reply' \in [Requests -> Replies]
    BY <1>1, <2>1 DEF PCs, Replies
  <2> QED BY <1>1, <2>1, <2>2, StoreUploadInv
<1> QED BY <1>2, <1>3

LEMMA HandlerDatabaseErrorInv ==
    ASSUME IInv, NEW r \in Requests, HandlerDatabaseError(r)
    PROVE  IInv'
<1>1. /\ Answer(r, 500)
      /\ UNCHANGED <<applied, call, read, tasks, worker, seen>>
      /\ faults' \in Nat
      /\ pc \in [Requests -> PCs] /\ reply \in [Requests -> Replies]
  BY DEF HandlerDatabaseError, Fail, pools, IInv, TypeOK
<1>2. CASE UNCHANGED history
  BY <1>1, <1>2, AnswerInv
<1>3. CASE pc[r] = "write" /\ StoreUpload(r)
  <2>1. pc' = [pc EXCEPT ![r] = "done"] /\ reply' = [reply EXCEPT ![r] = 500]
    BY <1>1 DEF Answer, Goto
  <2>2. pc' \in [Requests -> PCs] /\ reply' \in [Requests -> Replies]
    BY <1>1, <2>1 DEF PCs, Replies
  <2> QED BY <1>1, <1>3, <2>1, <2>2, StoreUploadInv
<1> QED BY <1>2, <1>3 DEF HandlerDatabaseError
--------------------------------------------------------------------------------
(* The worker thread *)

\* What ending a task does to the queue of server s.
LEMMA EndTaskFacts ==
    ASSUME TypeOK, NEW s \in Servers, tasks[s] # <<>>, EndTask(s)
    PROVE  /\ tasks' \in [Servers -> Seq(Logs)] /\ worker' \in [Servers -> WorkerStates]
           /\ worker'[s] = IdleWorker
           /\ \A t \in Servers : t # s => tasks'[t] = tasks[t] /\ worker'[t] = worker[t]
           /\ Task(s) = tasks[s][1] /\ 1 \in 1..Len(tasks[s]) /\ Task(s) \in Logs
           /\ \A i \in 1..Len(tasks'[s]) :
                i + 1 \in 1..Len(tasks[s]) /\ tasks'[s][i] = tasks[s][i + 1]
<1>1. /\ tasks' = [tasks EXCEPT ![s] = Tail(tasks[s])]
      /\ worker' = [worker EXCEPT ![s] = IdleWorker]
      /\ tasks \in [Servers -> Seq(Logs)] /\ worker \in [Servers -> WorkerStates]
  BY DEF EndTask, TypeOK
<1>2. tasks[s] \in Seq(Logs) /\ tasks'[s] = Tail(tasks[s])
  BY <1>1
<1>3. /\ Len(tasks[s]) \in Nat \ {0} /\ tasks'[s] \in Seq(Logs)
      /\ Len(tasks'[s]) = Len(tasks[s]) - 1
      /\ \A i \in 1..Len(tasks'[s]) : tasks'[s][i] = tasks[s][i + 1]
      /\ Task(s) = tasks[s][1] /\ tasks[s][1] \in Logs
  BY <1>2 DEF Task
<1>4. IdleWorker \in WorkerStates
  BY DEF IdleWorker, WorkerStates, Verdicts
<1> QED BY <1>1, <1>3, <1>4

\* A queue that only gets shorter leaves one validation per log pending, if the
\* only log that leaves `validating` is the one at the head.
LEMMA QueueShrinks ==
    ASSUME IInv, NEW s \in Servers, UNCHANGED call,
           \A q \in Requests : pc'[q] = "start" => pc[q] = "start",
           \A t \in Servers : t # s => tasks'[t] = tasks[t],
           \A i \in 1..Len(tasks'[s]) :
                i + 1 \in 1..Len(tasks[s]) /\ tasks'[s][i] = tasks[s][i + 1],
           \A l \in Logs : Status(l) = "validating" =>
                \/ Status(l)' = "validating"
                \/ 1 \in 1..Len(tasks[s]) /\ l = tasks[s][1]
    PROVE  OneValidationPerLog'
<1>1. /\ \A q \in Requests : LogOf(q)' = LogOf(q) /\ LogOf(q) \in Logs
      /\ \A t \in Servers : \A i \in 1..Len(tasks[t]) : tasks[t][i] \in Logs
  BY UploadStatus DEF LogOf, IInv, TypeOK
<1>2. \A q, r \in Requests :
        pc'[q] = "start" /\ pc'[r] = "start" /\ LogOf(q)' = LogOf(r)' => q = r
  BY <1>1 DEF IInv, OneValidationPerLog
<1>3. \A u, t \in Servers : \A i \in 1..Len(tasks'[u]), j \in 1..Len(tasks'[t]) :
        tasks'[u][i] = tasks'[t][j] => u = t /\ i = j
  <2> SUFFICES ASSUME NEW u \in Servers, NEW t \in Servers,
                      NEW i \in 1..Len(tasks'[u]), NEW j \in 1..Len(tasks'[t]),
                      tasks'[u][i] = tasks'[t][j]
               PROVE  u = t /\ i = j
    OBVIOUS
  <2> DEFINE k == IF u = s THEN i + 1 ELSE i
             m == IF t = s THEN j + 1 ELSE j
  <2>1. k \in 1..Len(tasks[u]) /\ tasks'[u][i] = tasks[u][k]
    OBVIOUS
  <2>2. m \in 1..Len(tasks[t]) /\ tasks'[t][j] = tasks[t][m]
    OBVIOUS
  <2>3. u = t /\ k = m
    <3>1. tasks[u][k] = tasks[t][m]
      BY <2>1, <2>2
    <3> HIDE DEF k, m
    <3> QED BY <2>1, <2>2, <3>1 DEF IInv, OneValidationPerLog
  <2> QED BY <2>3
<1>4. \A q \in Requests : pc'[q] = "start" =>
        /\ Status(LogOf(q))' = "validating"
        /\ \A t \in Servers : \A i \in 1..Len(tasks'[t]) : tasks'[t][i] # LogOf(q)'
  <2> SUFFICES ASSUME NEW q \in Requests, pc'[q] = "start"
               PROVE  /\ Status(LogOf(q))' = "validating"
                      /\ \A t \in Servers : \A i \in 1..Len(tasks'[t]) : tasks'[t][i] # LogOf(q)
    BY <1>1
  <2>1. /\ Status(LogOf(q)) = "validating"
        /\ \A t \in Servers : \A i \in 1..Len(tasks[t]) : tasks[t][i] # LogOf(q)
    BY DEF IInv, OneValidationPerLog
  <2>2. Status(LogOf(q))' = "validating"
    <3>1. \A l \in Logs : l = LogOf(q) => Status(l)' = "validating"
      BY <2>1
    <3> QED BY <1>1, <3>1 DEF Status, Latest
  <2> QED BY <2>1, <2>2
<1>5. \A t \in Servers : \A i \in 1..Len(tasks'[t]) : Status(tasks[t][i])' = "validating"
  <2> SUFFICES ASSUME NEW t \in Servers, NEW i \in 1..Len(tasks'[t])
               PROVE  Status(tasks[t][i])' = "validating"
    OBVIOUS
  <2> DEFINE k == IF t = s THEN i + 1 ELSE i
  <2>1. k \in 1..Len(tasks[t]) /\ tasks'[t][i] = tasks[t][k] /\ i \in Nat /\ i > 0
    OBVIOUS
  <2>2. Status(tasks[t][k]) = "validating" /\ tasks[t][k] \in Logs
    BY <1>1, <2>1 DEF IInv, OneValidationPerLog
  <2>3. ~(1 \in 1..Len(tasks[s]) /\ tasks[t][k] = tasks[s][1])
    <3> SUFFICES ASSUME 1 \in 1..Len(tasks[s]), tasks[t][k] = tasks[s][1] PROVE FALSE
      OBVIOUS
    <3>1. t = s => k = i + 1
      OBVIOUS
    <3> HIDE DEF k
    <3>2. t = s /\ k = 1
      BY <2>1 DEF IInv, OneValidationPerLog
    <3> QED BY <2>1, <3>1, <3>2
  <2>4. \A l \in Logs : l = tasks[t][k] => Status(l)' = "validating"
    BY <2>2, <2>3
  <2> QED BY <2>1, <2>2, <2>4 DEF Status, Latest
<1> QED BY <1>2, <1>3, <1>4, <1>5 DEF OneValidationPerLog

\* A task is over, with a verdict stored or without.
LEMMA EndTaskInv ==
    ASSUME IInv, NEW s \in Servers, tasks[s] # <<>>, EndTask(s),
           UNCHANGED <<applied, call, pc, read, reply, seen>>, faults' \in Nat,
           \/ UNCHANGED history
           \/ worker[s].at = "write" /\ StoreVerdict(s)
    PROVE  IInv'
<1>0. PICK l \in Logs : l = tasks[s][1]
  BY EndTaskFacts DEF IInv
<1>1. /\ tasks' \in [Servers -> Seq(Logs)] /\ worker' \in [Servers -> WorkerStates]
      /\ worker'[s].at = "find"
      /\ \A t \in Servers : t # s => tasks'[t] = tasks[t] /\ worker'[t] = worker[t]
      /\ Task(s) = l /\ 1 \in 1..Len(tasks[s]) /\ l \in Logs
      /\ \A i \in 1..Len(tasks'[s]) :
           i + 1 \in 1..Len(tasks[s]) /\ tasks'[s][i] = tasks[s][i + 1]
  BY <1>0, EndTaskFacts DEF IInv, IdleWorker
<1>2. /\ \A q \in Requests : /\ LogOf(q)' = LogOf(q) /\ NewStatus(q)' = NewStatus(q)
                             /\ DecidesUpload(q)' = DecidesUpload(q) /\ LogOf(q) \in Logs
                             /\ Stored(q)' = Stored(q)
  BY UploadStatus DEF IInv, LogOf, NewStatus, DecidesUpload, Stored
<1>3. \A t \in Servers : tasks'[t] # <<>> /\ worker'[t].at # "find" =>
          /\ t # s /\ tasks[t] # <<>> /\ Task(t) \in Logs
          /\ Task(t)' = Task(t) /\ worker'[t] = worker[t]
  BY <1>1 DEF Task, IInv, TypeOK
<1>4. UnansweredWhileRunning' /\ IdleWhenEmpty'
  BY <1>1 DEF IInv, UnansweredWhileRunning, IdleWhenEmpty
<1>5. CASE UNCHANGED history
  <2>1. /\ DocumentsConsistent' /\ FinalIsLast'
        /\ \A m \in Logs : Status(m)' = Status(m) /\ Latest(m)' = Latest(m)
    BY <1>5, QuietKeeps
  <2>2. OneValidationPerLog'
    BY <1>1, <2>1, QueueShrinks
  <2>3. TypeOK'
    BY <1>1, <1>5 DEF IInv, TypeOK
  <2>4. ReadsAreCommitted' /\ DecisionsAreLegal'
    BY <1>2, <1>3, <1>5 DEF IInv, ReadsAreCommitted, DecisionsAreLegal, Found
  <2>5. StoredOutcomesStand' /\ FinalAnswerIsTrue'
    BY <1>2, <2>1 DEF IInv, StoredOutcomesStand, FinalAnswerIsTrue
  <2> QED BY <1>4, <2>1, <2>2, <2>3, <2>4, <2>5 DEF IInv
<1>6. CASE worker[s].at = "write" /\ StoreVerdict(s)
  <2>1. PICK doc \in Docs :
            /\ Commit(l, doc)
            /\ doc.status \in Concluded
            /\ doc.file = Latest(l).file
            /\ ConsistentDoc(doc, Len(history[l]) + 1)
    BY <1>1, <1>6, VerdictCommits
  <2>2. Status(l) = "validating" /\ Status(l) \notin FinalStatuses
    BY <1>1, <1>6, VerdictCommits DEF FinalStatuses
  <2>3. /\ history' \in [Logs -> Seq(Docs)]
        /\ DocumentsConsistent' /\ FinalIsLast'
        /\ \A m \in Logs : /\ Len(history[m]) \in Nat /\ Len(history'[m]) \in Nat
                           /\ Len(history[m]) <= Len(history'[m])
        /\ \A m \in Logs : \A i \in 1..Len(history[m]) :
                           /\ history'[m][i] = history[m][i]
                           /\ i \in 1..Len(history'[m])
    BY <1>1, <2>1, <2>2, CommitKeeps
  <2>4. /\ Latest(l)' = doc /\ Status(l)' = doc.status
        /\ \A m \in Logs : m # l => Status(m)' = Status(m) /\ Latest(m)' = Latest(m)
    BY <1>1, <2>1, CommitAppends DEF IInv, TypeOK
  <2>5. OneValidationPerLog'
    <3>1. \A m \in Logs : Status(m) = "validating" =>
              \/ Status(m)' = "validating"
              \/ 1 \in 1..Len(tasks[s]) /\ m = tasks[s][1]
      BY <1>0, <1>1, <2>4
    <3> QED BY <1>1, <3>1, QueueShrinks
  <2>6. TypeOK'
    BY <1>1, <2>3 DEF IInv, TypeOK
  <2>7. ReadsAreCommitted'
    <3>1. \A d \in Secondaries, m \in Logs : applied[d][m] <= Len(history'[m])
      BY <2>3 DEF IInv, ReadsAreCommitted, TypeOK
    <3>2. \A q \in Requests : read[q] <= Len(history'[LogOf(q)])
      BY <1>2, <2>3 DEF IInv, ReadsAreCommitted, TypeOK
    <3>3. \A t \in Servers : tasks'[t] # <<>> /\ worker'[t].at # "find" =>
              worker'[t].read \in 1..Len(history'[Task(t)'])
      BY <1>3, <2>3 DEF IInv, ReadsAreCommitted
    <3> QED BY <1>2, <3>1, <3>2, <3>3 DEF ReadsAreCommitted, Task
  <2>8. DecisionsAreLegal'
    <3> SUFFICES ASSUME NEW q \in Requests, pc[q] = "write", read[q] > 0
                 PROVE  CanTransition(history'[LogOf(q)][read[q]].status, NewStatus(q))
      BY <1>2 DEF DecisionsAreLegal, Found, CanTransition, ValidTransitions
    <3>1. read[q] \in 1..Len(history[LogOf(q)])
      BY <1>2, <2>3 DEF IInv, ReadsAreCommitted, TypeOK
    <3> QED BY <1>2, <2>3, <3>1 DEF IInv, DecisionsAreLegal, Found
  <2>9. StoredOutcomesStand'
    <3> SUFFICES ASSUME NEW q \in Requests, Stored(q)
                 PROVE  /\ Status(LogOf(q))' \notin {"absent", "preprocessing"}
                        /\ Latest(LogOf(q))'.file.id = call[q].upload.fileId
                        /\ Latest(LogOf(q))'.file.status = call[q].upload.fileStatus
                        /\ \A t \in Requests : Stored(t) /\ LogOf(t) = LogOf(q) => t = q
      BY <1>2 DEF StoredOutcomesStand
    <3>1. CASE LogOf(q) = l
      <4>1. Latest(LogOf(q))' = doc /\ Status(LogOf(q))' = doc.status
        BY <1>2, <2>4, <3>1 DEF Status, Latest
      <4> QED BY <2>1, <3>1, <4>1 DEF IInv, StoredOutcomesStand, Concluded
    <3>2. CASE LogOf(q) # l
      <4>1. Latest(LogOf(q))' = Latest(LogOf(q)) /\ Status(LogOf(q))' = Status(LogOf(q))
        BY <1>2, <2>4, <3>2 DEF Status, Latest
      <4> QED BY <4>1 DEF IInv, StoredOutcomesStand
    <3> QED BY <3>1, <3>2
  <2>10. FinalAnswerIsTrue'
    BY <2>2, <2>4 DEF IInv, FinalAnswerIsTrue
  <2> QED BY <1>4, <2>3, <2>5, <2>6, <2>7, <2>8, <2>9, <2>10 DEF IInv
<1> QED BY <1>5, <1>6

\* The worker moves on with the same queue.
LEMMA WorkerMovesInv ==
    ASSUME IInv, NEW s \in Servers, tasks[s] # <<>>,
           UNCHANGED <<history, applied, call, pc, read, reply, tasks, seen>>,
           faults' \in Nat,
           NEW w \in WorkerStates, worker' = [worker EXCEPT ![s] = w],
           w.read \in 1..Len(history[Task(s)])
    PROVE  IInv'
<1>1. /\ DocumentsConsistent' /\ FinalIsLast'
      /\ \A m \in Logs : Status(m)' = Status(m) /\ Latest(m)' = Latest(m)
  BY QuietKeeps
<1>2. \A q \in Requests : /\ LogOf(q)' = LogOf(q) /\ NewStatus(q)' = NewStatus(q)
                          /\ Stored(q)' = Stored(q) /\ LogOf(q) \in Logs
  BY UploadStatus DEF IInv, LogOf, NewStatus, DecidesUpload, Stored
<1>3. TypeOK'
  BY DEF IInv, TypeOK
<1>4. ReadsAreCommitted' /\ DecisionsAreLegal' /\ IdleWhenEmpty'
  BY <1>2 DEF IInv, TypeOK, ReadsAreCommitted, DecisionsAreLegal, Found, Task, IdleWhenEmpty
<1>5. OneValidationPerLog'
  BY <1>1, <1>2 DEF IInv, TypeOK, OneValidationPerLog
<1>6. UnansweredWhileRunning' /\ FinalAnswerIsTrue' /\ StoredOutcomesStand'
  BY <1>1, <1>2 DEF IInv, UnansweredWhileRunning, FinalAnswerIsTrue, StoredOutcomesStand
<1> QED BY <1>1, <1>3, <1>4, <1>5, <1>6 DEF IInv

LEMMA WorkerFindInv ==
    ASSUME IInv, NEW s \in Servers, WorkerFind(s)
    PROVE  IInv'
<1>1. /\ tasks[s] # <<>>
      /\ UNCHANGED <<history, applied, call, pc, read, reply, seen, faults>>
      /\ faults' \in Nat /\ worker[s] \in WorkerStates /\ Task(s) \in Logs
  BY DEF WorkerFind, storage, handlers, IInv, TypeOK, Task
<1>2. PICK i \in Readable(Task(s)) :
        IF i = 0 THEN EndTask(s)
        ELSE /\ worker' = [worker EXCEPT ![s] = [worker[s] EXCEPT !.at = "check", !.read = i]]
             /\ UNCHANGED tasks
  BY DEF WorkerFind
<1>3. i \in Nat /\ i <= Len(history[Task(s)]) /\ Len(history[Task(s)]) \in Nat
  BY <1>1, <1>2, ReadableIsCommitted DEF IInv, TypeOK
<1>4. CASE i = 0
  BY <1>1, <1>2, <1>4, EndTaskInv
<1>5. CASE i # 0
  <2> DEFINE w == [at |-> "check", read |-> i, verdict |-> worker[s].verdict]
  <2>1. [worker[s] EXCEPT !.at = "check", !.read = i] = w /\ w \in WorkerStates
    <3>1. worker[s].verdict \in Verdicts
      BY <1>1 DEF WorkerStates
    <3>2. w \in WorkerStates
      BY <1>3, <3>1 DEF WorkerStates
    <3> DEFINE updated == [worker[s] EXCEPT !.at = "check", !.read = i]
    <3>3. updated = w
      <4>1. updated = [worker[s] EXCEPT !.at = "check", !.read = i]
        OBVIOUS
      <4> HIDE DEF updated
      <4> QED BY <1>1, <4>1 DEF WorkerStates
    <3> QED BY <3>2, <3>3
  <2>2. worker' = [worker EXCEPT ![s] = w] /\ UNCHANGED tasks
    BY <1>2, <1>5, <2>1
  <2>3. w.read \in 1..Len(history[Task(s)])
    BY <1>3, <1>5
  <2> HIDE DEF w
  <2> QED BY <1>1, <2>1, <2>2, <2>3, WorkerMovesInv
<1> QED BY <1>4, <1>5

LEMMA WorkerCheckInv ==
    ASSUME IInv, NEW s \in Servers, WorkerCheck(s)
    PROVE  IInv'
<1>1. /\ tasks[s] # <<>> /\ worker[s].at = "check"
      /\ UNCHANGED <<history, applied, call, pc, read, reply, seen, tasks>>
      /\ worker[s] \in WorkerStates /\ faults \in Nat
  BY DEF WorkerCheck, storage, handlers, IInv, TypeOK
<1>2. PICK v \in Verdicts :
        /\ IF v = "unsaveable" THEN Fail("emptyMessage") ELSE UNCHANGED faults
        /\ worker' = [worker EXCEPT ![s] = [worker[s] EXCEPT !.at = "write", !.verdict = v]]
  BY DEF WorkerCheck
<1>3. faults' \in Nat
  BY <1>1, <1>2 DEF Fail
<1> DEFINE w == [at |-> "write", read |-> worker[s].read, verdict |-> v]
<1>4. [worker[s] EXCEPT !.at = "write", !.verdict = v] = w /\ w \in WorkerStates
  <2>1. worker[s].read \in Nat
    BY <1>1 DEF WorkerStates
  <2>2. w \in WorkerStates
    BY <2>1 DEF WorkerStates
  <2> DEFINE updated == [worker[s] EXCEPT !.at = "write", !.verdict = v]
  <2>3. updated = w
    <3>1. updated = [worker[s] EXCEPT !.at = "write", !.verdict = v]
      OBVIOUS
    <3> HIDE DEF updated
    <3> QED BY <1>1, <3>1 DEF WorkerStates
  <2> QED BY <2>2, <2>3
<1>5. worker' = [worker EXCEPT ![s] = w]
  BY <1>2, <1>4
<1>6. w.read \in 1..Len(history[Task(s)])
  BY <1>1 DEF IInv, ReadsAreCommitted
<1> HIDE DEF w
<1> QED BY <1>1, <1>3, <1>4, <1>5, <1>6, WorkerMovesInv

LEMMA WorkerWriteInv ==
    ASSUME IInv, NEW s \in Servers, WorkerWrite(s)
    PROVE  IInv'
  BY EndTaskInv DEF WorkerWrite, handlers, IInv, TypeOK

LEMMA WorkerDatabaseErrorInv ==
    ASSUME IInv, NEW s \in Servers, WorkerDatabaseError(s)
    PROVE  IInv'
<1>1. faults' \in Nat
  BY DEF WorkerDatabaseError, Fail, IInv, TypeOK
<1> QED BY <1>1, EndTaskInv DEF WorkerDatabaseError, handlers
--------------------------------------------------------------------------------
(* The process, replication and the clients *)

\* The pool of a server is lost, and with it possibly its requests in flight.
LEMMA DropPoolInv ==
    ASSUME IInv, NEW s \in Servers, DropPool(s),
           UNCHANGED <<history, applied, call, read, seen>>, faults' \in Nat,
           NEW lost \in SUBSET Requests,
           \A r \in lost : InFlight(r),
           pc' = [r \in Requests |-> IF r \in lost THEN "done" ELSE pc[r]],
           reply' = [r \in Requests |-> IF r \in lost THEN -1 ELSE reply[r]]
    PROVE  IInv'
<1>1. /\ DocumentsConsistent' /\ FinalIsLast'
      /\ \A m \in Logs : Status(m)' = Status(m) /\ Latest(m)' = Latest(m)
  BY QuietKeeps
<1>2. /\ tasks' = [tasks EXCEPT ![s] = <<>>]
      /\ worker' = [worker EXCEPT ![s] = IdleWorker]
      /\ IdleWorker \in WorkerStates /\ IdleWorker.at = "find"
      /\ tasks \in [Servers -> Seq(Logs)] /\ worker \in [Servers -> WorkerStates]
  BY DEF DropPool, IdleWorker, WorkerStates, Verdicts, IInv, TypeOK
<1>3. \A q \in Requests : /\ pc'[q] = pc[q] \/ pc'[q] = "done"
                          /\ reply'[q] = reply[q] \/ (reply'[q] = -1 /\ pc'[q] = "done")
                          /\ pc'[q] # "done" => reply'[q] = reply[q] /\ pc'[q] = pc[q]
                          /\ reply'[q] = 202 => reply[q] = 202
  OBVIOUS
<1>4. \A q \in Requests : /\ LogOf(q)' = LogOf(q) /\ NewStatus(q)' = NewStatus(q)
                          /\ (Stored(q)' => Stored(q)) /\ LogOf(q) \in Logs
  BY <1>3, UploadStatus DEF IInv, LogOf, NewStatus, DecidesUpload, Stored
<1>5. TypeOK'
  <2>1. pc' \in [Requests -> PCs] /\ reply' \in [Requests -> Replies]
    BY DEF IInv, TypeOK, PCs, Replies
  <2>2. tasks' \in [Servers -> Seq(Logs)] /\ worker' \in [Servers -> WorkerStates]
    BY <1>2
  <2> QED BY <2>1, <2>2 DEF IInv, TypeOK
<1>6. OneValidationPerLog'
  <2>1. /\ \A t \in Servers : t # s => tasks'[t] = tasks[t]
        /\ \A i \in 1..Len(tasks'[s]) :
             i + 1 \in 1..Len(tasks[s]) /\ tasks'[s][i] = tasks[s][i + 1]
    BY <1>2
  <2> QED BY <1>1, <1>3, <2>1, QueueShrinks
<1>7. ReadsAreCommitted' /\ DecisionsAreLegal' /\ IdleWhenEmpty'
  BY <1>2, <1>3, <1>4 DEF IInv, ReadsAreCommitted, DecisionsAreLegal, Found, Task, IdleWhenEmpty
<1>8. UnansweredWhileRunning'
  BY <1>3 DEF IInv, UnansweredWhileRunning
<1>9. FinalAnswerIsTrue' /\ StoredOutcomesStand'
  BY <1>1, <1>4 DEF IInv, FinalAnswerIsTrue, StoredOutcomesStand
<1> QED BY <1>1, <1>5, <1>6, <1>7, <1>8, <1>9 DEF IInv

LEMMA CrashInv ==
    ASSUME IInv, NEW s \in Servers, Crash(s)
    PROVE  IInv'
<1> DEFINE lost == {r \in Requests : call[r].server = s /\ InFlight(r)}
<1>1. /\ pc' = [r \in Requests |-> IF r \in lost THEN "done" ELSE pc[r]]
      /\ reply' = [r \in Requests |-> IF r \in lost THEN -1 ELSE reply[r]]
      /\ DropPool(s) /\ faults' \in Nat
      /\ UNCHANGED <<history, applied, call, read, seen>>
  BY DEF Crash, Fail, storage, IInv, TypeOK
<1>2. lost \in SUBSET Requests /\ \A r \in lost : InFlight(r)
  OBVIOUS
<1> HIDE DEF lost
<1> QED BY <1>1, <1>2, DropPoolInv

LEMMA StopInv ==
    ASSUME IInv, NEW s \in Servers, Stop(s)
    PROVE  IInv'
<1>1. /\ pc' = [r \in Requests |-> IF r \in {} THEN "done" ELSE pc[r]]
      /\ reply' = [r \in Requests |-> IF r \in {} THEN -1 ELSE reply[r]]
      /\ DropPool(s) /\ faults' \in Nat
      /\ UNCHANGED <<history, applied, call, read, seen>>
  BY DEF Stop, Fail, storage, handlers, IInv, TypeOK
<1>2. {} \in SUBSET Requests /\ \A r \in {} : InFlight(r)
  OBVIOUS
<1> QED BY <1>1, <1>2, DropPoolInv

\* Steps that touch neither the documents nor a process.
LEMMA ObserverInv ==
    ASSUME IInv, UNCHANGED <<history, call, pc, read, reply, tasks, worker>>,
           TypeOK',
           \A d \in Secondaries, l \in Logs : applied'[d][l] <= Len(history[l]),
           \A l \in Logs : seen'[l] \in FinalStatuses => Status(l) = seen'[l]
    PROVE  IInv'
<1>1. /\ DocumentsConsistent' /\ FinalIsLast'
      /\ \A m \in Logs : Status(m)' = Status(m) /\ Latest(m)' = Latest(m)
  BY QuietKeeps
<1>2. \A q \in Requests : /\ LogOf(q)' = LogOf(q) /\ NewStatus(q)' = NewStatus(q)
                          /\ Stored(q)' = Stored(q) /\ LogOf(q) \in Logs
  BY UploadStatus DEF IInv, LogOf, NewStatus, DecidesUpload, Stored
<1>3. ReadsAreCommitted' /\ DecisionsAreLegal' /\ IdleWhenEmpty'
  BY <1>2 DEF IInv, ReadsAreCommitted, DecisionsAreLegal, Found, Task, IdleWhenEmpty
<1>4. OneValidationPerLog'
  BY <1>1, <1>2 DEF IInv, TypeOK, OneValidationPerLog
<1>5. UnansweredWhileRunning' /\ FinalAnswerIsTrue' /\ StoredOutcomesStand'
  BY <1>1, <1>2 DEF IInv, UnansweredWhileRunning, FinalAnswerIsTrue, StoredOutcomesStand
<1> QED BY <1>1, <1>3, <1>4, <1>5 DEF IInv

LEMMA ReplicateInv ==
    ASSUME IInv, NEW d \in Secondaries, NEW l \in Logs, Replicate(d, l)
    PROVE  IInv'
<1>1. /\ applied[d][l] < Len(history[l]) /\ Len(history[l]) \in Nat
      /\ applied \in [Secondaries -> [Logs -> Nat]]
      /\ applied' = [applied EXCEPT ![d] = [applied[d] EXCEPT ![l] = applied[d][l] + 1]]
      /\ UNCHANGED <<history, call, pc, read, reply, tasks, worker, seen, faults>>
  BY DEF Replicate, handlers, pools, IInv, TypeOK
<1>2. applied' \in [Secondaries -> [Logs -> Nat]]
  BY <1>1
<1>3. TypeOK'
  BY <1>1, <1>2 DEF IInv, TypeOK
<1>4. \A e \in Secondaries, m \in Logs : applied'[e][m] <= Len(history[m])
  <2> SUFFICES ASSUME NEW e \in Secondaries, NEW m \in Logs
               PROVE  applied'[e][m] <= Len(history[m])
    OBVIOUS
  <2>1. applied[e][m] <= Len(history[m])
    BY DEF IInv, ReadsAreCommitted
  <2>2. applied'[e][m] = IF e = d /\ m = l THEN applied[d][l] + 1 ELSE applied[e][m]
    BY <1>1
  <2> QED BY <1>1, <2>1, <2>2
<1> QED BY <1>1, <1>3, <1>4, ObserverInv DEF IInv, FinalAnswerIsTrue

\* A client is told the status of a committed version, or the default.
LEMMA TellInv ==
    ASSUME IInv, NEW l \in Logs, NEW i \in Nat, i <= Len(history[l]),
           seen' = [seen EXCEPT ![l] = Told(l, i)],
           UNCHANGED <<history, applied, call, pc, read, reply, tasks, worker, faults>>
    PROVE  IInv'
<1>2. UNCHANGED <<history, applied, call, pc, read, reply, tasks, worker, faults>>
  OBVIOUS
<1> DEFINE told == IF i = 0 THEN "preprocessing" ELSE history[l][i].status
<1>3. /\ i \in Nat /\ i <= Len(history[l]) /\ Len(history[l]) \in Nat
      /\ seen \in [Logs -> Statuses \cup {"unpolled"}]
      /\ seen' = [seen EXCEPT ![l] = told]
  BY DEF IInv, TypeOK, DefaultStatus, Told
<1>4. told \in Statuses
  <2>1. CASE i = 0
    BY <2>1 DEF Statuses
  <2>2. CASE i # 0
    <3>1. i \in 1..Len(history[l]) /\ history \in [Logs -> Seq(Docs)]
      BY <1>3, <2>2 DEF IInv, TypeOK
    <3>2. history[l][i] \in Docs
      BY <3>1, VersionIsADoc
    <3> QED BY <2>2, <3>2 DEF Docs
  <2> QED BY <2>1, <2>2
<1>5. told \in FinalStatuses => Status(l) = told
  <2> SUFFICES ASSUME told \in FinalStatuses
               PROVE  Status(l) = told
    OBVIOUS
  <2>1. i \in 1..Len(history[l]) /\ told = history[l][i].status
    BY <1>3 DEF FinalStatuses
  <2>2. i = Len(history[l])
    BY <2>1 DEF IInv, FinalIsLast
  <2> QED BY <2>1, <2>2 DEF Status, Latest
<1>6. TypeOK'
  BY <1>2, <1>3, <1>4 DEF IInv, TypeOK
<1>7. \A m \in Logs : seen'[m] \in FinalStatuses => Status(m) = seen'[m]
  <2> HIDE DEF told
  <2> QED BY <1>3, <1>5 DEF IInv, FinalAnswerIsTrue
<1> QED BY <1>2, <1>6, <1>7, ObserverInv DEF IInv, ReadsAreCommitted

LEMMA PollInv ==
    ASSUME IInv, NEW l \in Logs, Poll(l)
    PROVE  IInv'
<1>1. PICK i \in Readable(l) : seen' = [seen EXCEPT ![l] = Told(l, i)]
  BY DEF Poll
<1>2. i \in Nat /\ i <= Len(history[l])
  BY ReadableIsCommitted
<1>3. UNCHANGED <<history, applied, call, pc, read, reply, tasks, worker, faults>>
  BY DEF Poll, storage, handlers, pools
<1> QED BY <1>1, <1>2, <1>3, TellInv
--------------------------------------------------------------------------------
(* The theorems *)

LEMMA InitInv == Init => IInv
<1> SUFFICES ASSUME Init PROVE IInv
  OBVIOUS
<1>1. TypeOK
  BY DEF Init, TypeOK, PCs, Replies, IdleWorker, WorkerStates, Verdicts
<1>2. \A l \in Logs : history[l] = <<>> /\ Len(history[l]) = 0 /\ Status(l) = "absent"
  BY DEF Init, Status
<1>3. \A r \in Requests : LogOf(r) \in Logs /\ ~Stored(r)
  BY <1>1, UploadStatus DEF Init, Stored
<1>4. ReadsAreCommitted /\ IdleWhenEmpty /\ DecisionsAreLegal
  <2>1. /\ \A d \in Secondaries, l \in Logs : applied[d][l] = 0
        /\ \A r \in Requests : read[r] = 0 /\ pc[r] = "unsent"
        /\ \A s \in Servers : tasks[s] = <<>> /\ worker[s] = IdleWorker
    BY DEF Init
  <2>2. ReadsAreCommitted
    BY <1>2, <1>3, <2>1 DEF ReadsAreCommitted
  <2>3. IdleWhenEmpty
    BY <2>1 DEF IdleWhenEmpty, IdleWorker
  <2>4. DecisionsAreLegal
    BY <2>1 DEF DecisionsAreLegal
  <2> QED BY <2>2, <2>3, <2>4
<1>5. DocumentsConsistent /\ FinalIsLast
  BY <1>2 DEF DocumentsConsistent, FinalIsLast
<1>6. OneValidationPerLog
  BY DEF Init, OneValidationPerLog
<1>7. UnansweredWhileRunning /\ StoredOutcomesStand /\ FinalAnswerIsTrue
  BY <1>3 DEF Init, UnansweredWhileRunning, StoredOutcomesStand, FinalAnswerIsTrue,
              FinalStatuses
<1> QED BY <1>1, <1>4, <1>5, <1>6, <1>7 DEF IInv

LEMMA StutterInv == ASSUME IInv, UNCHANGED vars PROVE IInv'
<1>1. UNCHANGED <<history, applied, call, pc, read, reply, tasks, worker, seen, faults>>
  BY DEF vars
<1>2. TypeOK'
  BY <1>1 DEF IInv, TypeOK
<1> QED BY <1>1, <1>2, ObserverInv DEF IInv, ReadsAreCommitted, FinalAnswerIsTrue

LEMMA NextInv == IInv /\ [Next]_vars => IInv'
<1> SUFFICES ASSUME IInv, [Next]_vars PROVE IInv'
  OBVIOUS
<1>1. ASSUME NEW r \in Requests, Receive(r) \/ Handle(r) \/ HandlerDatabaseError(r)
      PROVE  IInv'
  BY <1>1, ReceiveInv, FindExistingInv, WriteUploadInv, InsertConflictInv, UpdateConflictInv,
     RereadInv, StartValidationInv, HandlerDatabaseErrorInv DEF Handle
<1>2. ASSUME NEW s \in Servers, Work(s) \/ WorkerDatabaseError(s) \/ Crash(s) \/ Stop(s)
      PROVE  IInv'
  BY <1>2, WorkerFindInv, WorkerCheckInv, WorkerWriteInv, WorkerDatabaseErrorInv, CrashInv,
     StopInv DEF Work
<1>3. ASSUME NEW d \in Secondaries, NEW l \in Logs, Replicate(d, l)
      PROVE  IInv'
  BY <1>3, ReplicateInv
<1>4. ASSUME NEW l \in Logs, Poll(l)
      PROVE  IInv'
  BY <1>4, PollInv
<1> QED BY <1>1, <1>2, <1>3, <1>4, StutterInv DEF Next

\* The strengthened invariant holds in every reachable state.
THEOREM InductiveInvariant == Spec => []IInv
  BY InitInv, NextInv, PTL DEF Spec

\* Every variable keeps its type.
THEOREM TypeCorrect == Spec => []TypeOK
<1>1. IInv => TypeOK
  BY DEF IInv
<1> QED BY <1>1, InductiveInvariant, PTL

\* Every committed version of every document is consistent.
THEOREM DocumentsStayConsistent == Spec => []DocumentsConsistent
<1>1. IInv => DocumentsConsistent
  BY DEF IInv
<1> QED BY <1>1, InductiveInvariant, PTL

\* No log ever has two validations pending, whatever is duplicated or lost.
THEOREM OneValidation == Spec => []OneValidationPerLog
<1>1. IInv => OneValidationPerLog
  BY DEF IInv
<1> QED BY <1>1, InductiveInvariant, PTL

\* An outcome acknowledged with 202 is never overwritten.
THEOREM OutcomesStand == Spec => []AcknowledgedOutcomeStands
<1>1. IInv => AcknowledgedOutcomeStands
  BY DEF IInv, StoredOutcomesStand, Stored, AcknowledgedOutcomeStands
<1> QED BY <1>1, InductiveInvariant, PTL

\* A final status told to a client is the status of the log for good.
THEOREM FinalAnswersAreTrue == Spec => []FinalAnswerIsTrue
<1>1. IInv => FinalAnswerIsTrue
  BY DEF IInv
<1> QED BY <1>1, InductiveInvariant, PTL
--------------------------------------------------------------------------------
(* Refinement *)

\* Only two kinds of step commit.
LEMMA StepKinds ==
    ASSUME Next
    PROVE  /\ UNCHANGED call
           /\ \/ UNCHANGED history
              \/ \E r \in Requests : pc[r] = "write" /\ StoreUpload(r)
              \/ \E s \in Servers :
                    tasks[s] # <<>> /\ worker[s].at = "write" /\ StoreVerdict(s)
<1>1. ASSUME NEW r \in Requests, Receive(r) \/ Handle(r) \/ HandlerDatabaseError(r)
      PROVE  /\ UNCHANGED call
             /\ UNCHANGED history \/ (pc[r] = "write" /\ StoreUpload(r))
  BY <1>1 DEF Receive, Handle, HandlerDatabaseError, FindExisting, WriteUpload, InsertConflict,
              UpdateConflict, Reread, StartValidation, storage
<1>2. ASSUME NEW s \in Servers, Work(s) \/ WorkerDatabaseError(s) \/ Crash(s) \/ Stop(s)
      PROVE  /\ UNCHANGED call
             /\ \/ UNCHANGED history
                \/ tasks[s] # <<>> /\ worker[s].at = "write" /\ StoreVerdict(s)
  BY <1>2 DEF Work, WorkerFind, WorkerCheck, WorkerWrite, WorkerDatabaseError, Crash, Stop,
              storage, handlers
<1>3. ASSUME NEW d \in Secondaries, NEW l \in Logs, Replicate(d, l)
      PROVE  UNCHANGED <<call, history>>
  BY <1>3 DEF Replicate, handlers
<1>4. ASSUME NEW l \in Logs, Poll(l)
      PROVE  UNCHANGED <<call, history>>
  BY <1>4 DEF Poll, handlers, storage
<1> QED BY <1>1, <1>2, <1>3, <1>4 DEF Next

\* A commit to one document changes the lifecycle of that log alone.
LEMMA CommitChangesOne ==
    ASSUME IInv, NEW l \in Logs, NEW doc \in Docs, Commit(l, doc), doc.status \in Statuses
    PROVE  /\ [m \in Logs |-> Status(m)]' = [[m \in Logs |-> Status(m)] EXCEPT ![l] = doc.status]
           /\ [m \in Logs |-> Accepted(m)]' = [[m \in Logs |-> Accepted(m)] EXCEPT
                ![l] = IF doc.status = "preprocessing" THEN NoFile ELSE doc.file.id]
           /\ [m \in Logs |-> Judged(m)]' =
                [[m \in Logs |-> Judged(m)] EXCEPT ![l] = doc.validation]
<1>1. /\ Latest(l)' = doc /\ Status(l)' = doc.status
      /\ \A m \in Logs : m # l => Status(m)' = Status(m) /\ Latest(m)' = Latest(m)
  BY CommitAppends DEF IInv, TypeOK
<1>2. doc.status # "absent"
  BY DEF Statuses
<1>3. /\ Accepted(l)' = IF doc.status = "preprocessing" THEN NoFile ELSE doc.file.id
      /\ Judged(l)' = doc.validation
  BY <1>1, <1>2 DEF Accepted, Judged
<1>4. \A m \in Logs : m # l => Accepted(m)' = Accepted(m) /\ Judged(m)' = Judged(m)
  BY <1>1 DEF Accepted, Judged
<1> QED BY <1>1, <1>3, <1>4

LEMMA UploadRefines ==
    ASSUME IInv, NEW r \in Requests, pc[r] = "write", StoreUpload(r), UNCHANGED call
    PROVE  Lifecycle!Next
<1>1. PICK l \in Logs, doc \in Docs :
        /\ l = LogOf(r)
        /\ Commit(l, doc)
        /\ doc.status \in {"preprocessing", "rejected", "validating"}
        /\ ConsistentDoc(doc, Len(history[l]) + 1)
        /\ Status(l) \in {"absent", "preprocessing"}
  BY UploadCommits, UploadStatus DEF IInv
<1>2. doc.file.id \in FileIds /\ doc.status \in Statuses /\ doc.validation = NoFile
  BY <1>1 DEF Docs, Files, ConsistentDoc, Concluded
<1>3. Judged(l) = NoFile /\ Accepted(l) = NoFile
  <2>1. CASE Status(l) = "absent"
    BY <2>1 DEF Judged, Accepted
  <2>2. CASE Status(l) = "preprocessing"
    <3>1. history[l] # <<>> /\ Len(history[l]) \in 1..Len(history[l])
          /\ Latest(l).status = "preprocessing" /\ Latest(l) = history[l][Len(history[l])]
      BY <2>2, LatestIsDoc DEF Status, IInv, TypeOK
    <3>2. ConsistentDoc(Latest(l), Len(history[l]))
      BY <3>1 DEF IInv, DocumentsConsistent
    <3> QED BY <2>2, <3>1, <3>2 DEF Judged, Accepted, ConsistentDoc, Concluded
  <2> QED BY <1>1, <2>1, <2>2
<1>4. /\ [m \in Logs |-> Status(m)]' = [[m \in Logs |-> Status(m)] EXCEPT ![l] = doc.status]
      /\ [m \in Logs |-> Accepted(m)]' = [[m \in Logs |-> Accepted(m)] EXCEPT
           ![l] = IF doc.status = "preprocessing" THEN NoFile ELSE doc.file.id]
      /\ [m \in Logs |-> Judged(m)]' =
           [[m \in Logs |-> Judged(m)] EXCEPT ![l] = doc.validation]
  BY <1>1, <1>2, CommitChangesOne
<1>5. UNCHANGED [m \in Logs |-> Judged(m)]
  BY <1>2, <1>3, <1>4
<1>6. CASE doc.status = "preprocessing"
  <2>1. UNCHANGED [m \in Logs |-> Accepted(m)]
    BY <1>3, <1>4, <1>6
  <2>2. Lifecycle!Announce(l)
    BY <1>1, <1>4, <1>5, <1>6, <2>1 DEF Lifecycle!Announce, Lifecycle!Undecided
  <2> QED BY <2>2 DEF Lifecycle!Next
<1>7. CASE doc.status # "preprocessing"
  <2>1. Lifecycle!Decide(l, doc.file.id, doc.status)
    BY <1>1, <1>4, <1>5, <1>7 DEF Lifecycle!Decide, Lifecycle!Undecided
  <2> QED BY <1>1, <1>2, <1>7, <2>1 DEF Lifecycle!Next
<1> QED BY <1>6, <1>7

LEMMA VerdictRefines ==
    ASSUME IInv, NEW l \in Logs, NEW doc \in Docs,
           Commit(l, doc),
           doc.status \in Concluded,
           doc.file = Latest(l).file,
           ConsistentDoc(doc, Len(history[l]) + 1),
           Status(l) = "validating"
    PROVE  Lifecycle!Next
<1>1. /\ Commit(l, doc)
      /\ doc.status \in Concluded
      /\ doc.file = Latest(l).file
      /\ ConsistentDoc(doc, Len(history[l]) + 1)
      /\ Status(l) = "validating"
  OBVIOUS
<1>2. /\ doc.status \in Statuses /\ doc.status \in {"validated", "invalid"}
      /\ doc.validation = doc.file.id
  BY <1>1 DEF Concluded, Statuses, ConsistentDoc
<1>3. Accepted(l) = doc.file.id
  BY <1>1 DEF Accepted
<1>4. /\ [m \in Logs |-> Status(m)]' = [[m \in Logs |-> Status(m)] EXCEPT ![l] = doc.status]
      /\ [m \in Logs |-> Accepted(m)]' = [[m \in Logs |-> Accepted(m)] EXCEPT
           ![l] = IF doc.status = "preprocessing" THEN NoFile ELSE doc.file.id]
      /\ [m \in Logs |-> Judged(m)]' =
           [[m \in Logs |-> Judged(m)] EXCEPT ![l] = doc.validation]
  BY <1>1, <1>2, CommitChangesOne
<1>5. UNCHANGED [m \in Logs |-> Accepted(m)]
  BY <1>2, <1>3, <1>4
<1>6. Lifecycle!Conclude(l, doc.status)
  BY <1>1, <1>2, <1>3, <1>4, <1>5 DEF Lifecycle!Conclude
<1> QED BY <1>2, <1>6 DEF Lifecycle!Next

LEMMA QuietRefines == UNCHANGED history => UNCHANGED Lifecycle!lifecycle
  BY DEF Lifecycle!lifecycle, Status, Accepted, Judged, Latest

LEMMA InitRefines == Init => Lifecycle!Init
  BY DEF Init, Lifecycle!Init, Status, Accepted, Judged

LEMMA NextRefines ==
    ASSUME IInv, [Next]_vars
    PROVE  [Lifecycle!Next]_Lifecycle!lifecycle
<1>1. CASE UNCHANGED history
  BY <1>1, QuietRefines
<1>2. CASE history' # history
  <2>1. Next
    BY <1>2 DEF vars
  <2>2. ASSUME NEW r \in Requests, pc[r] = "write", StoreUpload(r)
        PROVE  Lifecycle!Next
    BY <2>1, <2>2, StepKinds, UploadRefines
  <2>3. ASSUME NEW s \in Servers, tasks[s] # <<>>, worker[s].at = "write", StoreVerdict(s)
        PROVE  Lifecycle!Next
    BY <2>3, VerdictCommits, VerdictRefines
  <2> QED BY <1>2, <2>1, <2>2, <2>3, StepKinds
<1> QED BY <1>1, <1>2

\* Every committed step of the service is a step of the lifecycle, although no
\* write checks a status and every decision is taken on a possibly stale read.
THEOREM Refinement == Spec => ImplementsLifecycle
<1>1. Init => Lifecycle!Init
  BY InitRefines
<1>2. IInv /\ [Next]_vars => [Lifecycle!Next]_Lifecycle!lifecycle
  BY NextRefines
<1> QED BY <1>1, <1>2, InductiveInvariant, PTL DEF Spec, ImplementsLifecycle, Lifecycle!Spec
--------------------------------------------------------------------------------
(* Reads from one node *)

LEMMA ProgressIsNat ==
    ASSUME NEW status \in Statuses
    PROVE  /\ Progress(status) \in 1..3
           /\ status = "preprocessing" => Progress(status) = 1
           /\ status = "validating" => Progress(status) = 2
           /\ status \in FinalStatuses => Progress(status) = 3
  BY DEF Statuses, FinalStatuses, Progress

\* Every step leaves what was committed and applied where it was.
LEMMA StepGrows ==
    ASSUME IInv, Next
    PROVE  /\ call' = call
           /\ \A l \in Logs : /\ Len(history[l]) \in Nat /\ Len(history'[l]) \in Nat
                              /\ Len(history[l]) <= Len(history'[l])
           /\ \A l \in Logs : \A i \in 1..Len(history[l]) : history'[l][i] = history[l][i]
           /\ \A d \in Secondaries, l \in Logs : applied[d][l] <= applied'[d][l]
<1>1. call' = call
  BY StepKinds
<1>2. \A l \in Logs : Len(history[l]) \in Nat
  BY DEF IInv, TypeOK
<1>3. /\ \A l \in Logs : /\ Len(history[l]) \in Nat /\ Len(history'[l]) \in Nat
                         /\ Len(history[l]) <= Len(history'[l])
      /\ \A l \in Logs : \A i \in 1..Len(history[l]) : history'[l][i] = history[l][i]
  <2>1. CASE UNCHANGED history
    BY <1>2, <2>1
  <2>2. ASSUME NEW r \in Requests, pc[r] = "write", StoreUpload(r)
        PROVE  <1>3!1 /\ <1>3!2
    <3>1. PICK l \in Logs, doc \in Docs :
            /\ Commit(l, doc) /\ ConsistentDoc(doc, Len(history[l]) + 1)
            /\ Status(l) \notin FinalStatuses
      BY <2>2, UploadCommits, UploadStatus DEF FinalStatuses, IInv
    <3> QED BY <3>1, CommitKeeps
  <2>3. ASSUME NEW s \in Servers, tasks[s] # <<>>, worker[s].at = "write", StoreVerdict(s)
        PROVE  <1>3!1 /\ <1>3!2
    <3>1. PICK l \in Logs, doc \in Docs :
            /\ Commit(l, doc) /\ ConsistentDoc(doc, Len(history[l]) + 1)
            /\ Status(l) \notin FinalStatuses
      BY <2>3, VerdictCommits DEF FinalStatuses
    <3> QED BY <3>1, CommitKeeps
  <2> QED BY <2>1, <2>2, <2>3, StepKinds
<1>4. applied \in [Secondaries -> [Logs -> Nat]]
  BY DEF IInv, TypeOK
<1>5. \A d \in Secondaries, l \in Logs : applied[d][l] <= applied'[d][l]
  <2>1. CASE UNCHANGED applied
    BY <1>4, <2>1
  <2>2. ASSUME NEW d \in Secondaries, NEW l \in Logs, Replicate(d, l)
        PROVE  \A e \in Secondaries, m \in Logs : applied[e][m] <= applied'[e][m]
    <3>1. applied' = [applied EXCEPT ![d] = [applied[d] EXCEPT ![l] = applied[d][l] + 1]]
      BY <2>2 DEF Replicate
    <3>2. \A e \in Secondaries, m \in Logs :
            /\ applied[e][m] \in Nat
            /\ applied'[e][m] = IF e = d /\ m = l THEN applied[e][m] + 1 ELSE applied[e][m]
      BY <1>4, <3>1
    <3> QED BY <3>2
  <2>3. ASSUME NEW r \in Requests, Receive(r) \/ Handle(r) \/ HandlerDatabaseError(r)
        PROVE  UNCHANGED applied
    BY <2>3 DEF Receive, Handle, HandlerDatabaseError, FindExisting, WriteUpload, InsertConflict,
                UpdateConflict, Reread, StartValidation, storage
  <2>4. ASSUME NEW s \in Servers, Work(s) \/ WorkerDatabaseError(s) \/ Crash(s) \/ Stop(s)
        PROVE  UNCHANGED applied
    BY <2>4 DEF Work, WorkerFind, WorkerCheck, WorkerWrite, WorkerDatabaseError, Crash, Stop, storage
  <2>5. ASSUME NEW l \in Logs, Poll(l) PROVE UNCHANGED applied
    BY <2>5 DEF Poll, storage
  <2> QED BY <2>1, <2>2, <2>3, <2>4, <2>5 DEF Next
<1> QED BY <1>1, <1>3, <1>5

\* A commit moves the status of its log on.
LEMMA CommitMovesForward ==
    ASSUME IInv, StatusesMoveForward, NEW l \in Logs, NEW doc \in Docs, Commit(l, doc),
           \/ Status(l) \in {"absent", "preprocessing"}
           \/ Status(l) = "validating" /\ doc.status \in Concluded
    PROVE  StatusesMoveForward'
<1>1. PICK n : n = Len(history[l])
  OBVIOUS
<1>2. /\ n \in Nat /\ Len(history'[l]) = n + 1 /\ history'[l][n + 1] = doc
      /\ \A i \in 1..n : history'[l][i] = history[l][i]
      /\ \A m \in Logs : m # l => history'[m] = history[m]
  BY <1>1, CommitAppends DEF IInv, TypeOK, Latest
<1>3. Progress(doc.status) \in 1..3
  BY ProgressIsNat DEF Docs
<1>4. ASSUME NEW i \in 1..n PROVE Progress(history[l][i].status) <= Progress(doc.status)
  <2>1. /\ history[l] # <<>> /\ n \in 1..n /\ i <= n
        /\ history[l][i] \in Docs /\ history[l][n] \in Docs
    BY <1>1, <1>2 DEF IInv, TypeOK
  <2>2. Progress(history[l][i].status) <= Progress(history[l][n].status)
    BY <1>1, <2>1 DEF StatusesMoveForward
  <2>3. Status(l) = history[l][n].status /\ Status(l) # "absent"
    BY <1>1, <2>1 DEF Status, Latest, Docs, Statuses
  <2>4. /\ Progress(history[l][i].status) \in 1..3
        /\ Progress(history[l][n].status) \in 1..3
    BY <2>1, ProgressIsNat DEF Docs
  <2>5. Progress(history[l][n].status) <= Progress(doc.status)
    <3>1. CASE Status(l) = "preprocessing"
      <4>1. Progress(history[l][n].status) = 1
        BY <2>1, <2>3, <3>1, ProgressIsNat DEF Docs
      <4> QED BY <1>3, <4>1
    <3>2. CASE Status(l) = "validating" /\ doc.status \in Concluded
      <4>1. Progress(history[l][n].status) = 2
        BY <2>1, <2>3, <3>2, ProgressIsNat DEF Docs
      <4>2. Progress(doc.status) = 3
        BY <3>2, ProgressIsNat DEF Docs, Concluded, FinalStatuses
      <4> QED BY <4>1, <4>2
    <3> QED BY <2>3, <3>1, <3>2
  <2> QED BY <1>3, <2>2, <2>4, <2>5
<1>5. ASSUME NEW m \in Logs, NEW i \in 1..Len(history'[m]), NEW j \in 1..Len(history'[m]), i <= j
      PROVE  Progress(history'[m][i].status) <= Progress(history'[m][j].status)
  <2>1. CASE m # l
    BY <1>2, <1>5, <2>1 DEF StatusesMoveForward
  <2>2. CASE m = l /\ j \in 1..n
    <3>1. i \in 1..n
      BY <1>2, <1>5, <2>2
    <3> QED BY <1>1, <1>2, <1>5, <2>2, <3>1 DEF StatusesMoveForward
  <2>3. CASE m = l /\ j = n + 1 /\ i \in 1..n
    BY <1>2, <1>4, <2>3
  <2>4. CASE m = l /\ j = n + 1 /\ i = n + 1
    BY <1>2, <1>3, <2>4
  <2>5. m = l => /\ j \in 1..n \/ j = n + 1
                 /\ i \in 1..n \/ i = n + 1
    BY <1>2, <1>5
  <2> QED BY <1>2, <1>5, <2>1, <2>2, <2>3, <2>4, <2>5
<1> QED BY <1>5 DEF StatusesMoveForward, Progress, FinalStatuses

\* Statuses along a history are in order, and stay so.
LEMMA ForwardKept ==
    ASSUME StatusesMoveForward, UNCHANGED history
    PROVE  StatusesMoveForward'
  BY DEF StatusesMoveForward, Progress, FinalStatuses

LEMMA StepMovesForward ==
    ASSUME IInv, StatusesMoveForward, Next
    PROVE  StatusesMoveForward'
<1>1. CASE UNCHANGED history
  BY <1>1, ForwardKept
<1>2. ASSUME NEW r \in Requests, pc[r] = "write", StoreUpload(r) PROVE StatusesMoveForward'
  BY <1>2, UploadCommits, UploadStatus, CommitMovesForward DEF IInv
<1>3. ASSUME NEW s \in Servers, tasks[s] # <<>>, worker[s].at = "write", StoreVerdict(s)
      PROVE  StatusesMoveForward'
  BY <1>3, VerdictCommits, CommitMovesForward
<1> QED BY <1>1, <1>2, <1>3, StepKinds

\* What is told of a later version is further on.
LEMMA ToldMovesForward ==
    ASSUME NEW h, h \in Seq(Docs),
           \A i, j \in 1..Len(h) : i <= j => Progress(h[i].status) <= Progress(h[j].status),
           NEW i \in 0..Len(h), NEW j \in 0..Len(h), i <= j,
           NEW first, first = (IF i = 0 THEN DefaultStatus ELSE h[i].status),
           NEW second, second = (IF j = 0 THEN DefaultStatus ELSE h[j].status)
    PROVE  /\ Progress(first) \in 1..3 /\ Progress(second) \in 1..3
           /\ Progress(first) <= Progress(second)
<1>1. \A k \in 1..Len(h) : h[k].status \in Statuses
  <2>1. \A k \in 1..Len(h) : h[k] \in Docs
    OBVIOUS
  <2> QED BY <2>1 DEF Docs
<1>2. Len(h) \in Nat /\ DefaultStatus \in Statuses
  BY DEF DefaultStatus, Statuses
<1>3. first \in Statuses /\ second \in Statuses
  BY <1>1, <1>2
<1>4. /\ Progress(first) \in 1..3 /\ Progress(second) \in 1..3
      /\ i = 0 => Progress(first) = 1
  BY <1>3, ProgressIsNat DEF DefaultStatus
<1>5. CASE i = 0
  BY <1>4, <1>5
<1>6. CASE i # 0
  <2>1. i \in 1..Len(h) /\ j \in 1..Len(h) /\ j # 0
    BY <1>2, <1>6
  <2>2. Progress(h[i].status) <= Progress(h[j].status)
    BY <2>1
  <2> QED BY <1>4, <1>6, <2>1, <2>2
<1> QED BY <1>5, <1>6

LEMMA OneNodeReads ==
    ASSUME OneNode, NEW l, NEW i \in Readable(l), NEW j \in Readable(l)
    PROVE  i = j
  BY DEF OneNode, Readable

LEMMA ReadableGrows ==
    ASSUME OneNode, IInv, Next, NEW l \in Logs, NEW i \in Readable(l), NEW j, j \in Readable(l)'
    PROVE  i <= j
<1>1. CASE ReadFrom = "primary"
  BY <1>1, StepGrows DEF Readable
<1>2. CASE ReadFrom # "primary"
  <2>1. PICK d \in Secondaries : i = applied[d][l]
    BY <1>2 DEF Readable
  <2>2. PICK e \in Secondaries : j = applied'[e][l]
    BY <1>2 DEF Readable
  <2>3. d = e
    BY <1>2 DEF OneNode
  <2> QED BY <2>1, <2>2, <2>3, StepGrows
<1> QED BY <1>1, <1>2

\* Which steps read, answer "not found" or tell a client something, and what of.
LEMMA StepReads ==
    ASSUME IInv, Next
    PROVE  /\ \A r \in Requests :
              /\ read'[r] = read[r] \/ (read'[r] \in Readable(LogOf(r)) /\ UNCHANGED storage)
              /\ pc'[r] = "reread" => read'[r] = read[r] /\ (pc[r] = "reread" \/ read[r] > 0)
              /\ reply'[r] = 404 => reply[r] = 404 \/ (pc[r] = "reread" /\ 0 \in Readable(LogOf(r)))
           /\ \A l \in Logs :
              seen'[l] = seen[l] \/ (UNCHANGED storage /\ \E i \in Readable(l) : seen'[l] = Told(l, i))
<1>1. /\ read \in [Requests -> Nat] /\ pc \in [Requests -> PCs]
      /\ reply \in [Requests -> Replies] /\ seen \in [Logs -> Statuses \cup {"unpolled"}]
  BY DEF IInv, TypeOK
<1> DEFINE Handles ==
             \A q \in Requests :
               /\ read'[q] = read[q] \/ (read'[q] \in Readable(LogOf(q)) /\ UNCHANGED storage)
               /\ pc'[q] = "reread" => read'[q] = read[q] /\ (pc[q] = "reread" \/ read[q] > 0)
               /\ reply'[q] = 404 => reply[q] = 404 \/ (pc[q] = "reread" /\ 0 \in Readable(LogOf(q)))
<1>2. ASSUME NEW r \in Requests, Receive(r) \/ Handle(r) \/ HandlerDatabaseError(r)
      PROVE  Handles /\ UNCHANGED seen
  <2>1. CASE Receive(r)
    BY <1>1, <2>1 DEF Receive, Goto
  <2>2. CASE FindExisting(r)
    <3>1. PICK i \in Readable(LogOf(r)) :
            /\ read' = [read EXCEPT ![r] = i]
            /\ IF i > 0 /\ ~CanTransition(history[LogOf(r)][i].status, NewStatus(r))
               THEN Answer(r, 409)
               ELSE Goto(r, "write") /\ UNCHANGED reply
      BY <2>2 DEF FindExisting
    <3>2. \/ pc' = [pc EXCEPT ![r] = "done"] /\ reply' = [reply EXCEPT ![r] = 409]
          \/ pc' = [pc EXCEPT ![r] = "write"] /\ reply' = reply
      BY <3>1 DEF Answer, Goto
    <3>3. UNCHANGED <<storage, seen>> /\ pc[r] = "find"
      BY <2>2 DEF FindExisting
    <3>4. ASSUME NEW q \in Requests, q # r
          PROVE  read'[q] = read[q] /\ pc'[q] = pc[q] /\ reply'[q] = reply[q]
      BY <1>1, <3>1, <3>2, <3>4
    <3>5. /\ read'[r] \in Readable(LogOf(r)) /\ pc'[r] # "reread"
          /\ reply'[r] = reply[r] \/ reply'[r] = 409
      BY <1>1, <3>1, <3>2
    <3>6. ASSUME NEW q \in Requests
          PROVE  /\ read'[q] = read[q] \/ (read'[q] \in Readable(LogOf(q)) /\ UNCHANGED storage)
                 /\ pc'[q] = "reread" => read'[q] = read[q] /\ (pc[q] = "reread" \/ read[q] > 0)
                 /\ reply'[q] = 404 => reply[q] = 404 \/ (pc[q] = "reread" /\ 0 \in Readable(LogOf(q)))
      <4>1. CASE q = r
        BY <3>3, <3>4, <3>5, <4>1
      <4>2. CASE q # r
        BY <3>4, <4>2
      <4> QED BY <4>1, <4>2
    <3> QED BY <3>3, <3>6
  <2>3. CASE WriteUpload(r)
    BY <1>1, <2>3 DEF WriteUpload, AfterStore, Answer, Goto
  <2>4. CASE InsertConflict(r)
    BY <1>1, <2>4 DEF InsertConflict, Answer, Goto
  <2>5. CASE UpdateConflict(r)
    BY <1>1, <2>5 DEF UpdateConflict, Goto
  <2>6. CASE Reread(r)
    <3>1. PICK i \in Readable(LogOf(r)) : Answer(r, IF i = 0 THEN 404 ELSE 409)
      BY <2>6 DEF Reread
    <3>2. pc' = [pc EXCEPT ![r] = "done"] /\ reply' = [reply EXCEPT ![r] = IF i = 0 THEN 404 ELSE 409]
      BY <3>1 DEF Answer, Goto
    <3>3. pc[r] = "reread" /\ UNCHANGED <<read, seen>>
      BY <2>6 DEF Reread
    <3> QED BY <1>1, <3>1, <3>2, <3>3
  <2>7. CASE StartValidation(r)
    BY <1>1, <2>7 DEF StartValidation, Answer, Goto
  <2>8. CASE HandlerDatabaseError(r)
    <3>1. /\ pc' = [pc EXCEPT ![r] = "done"] /\ reply' = [reply EXCEPT ![r] = 500]
          /\ UNCHANGED <<read, seen>>
      BY <2>8 DEF HandlerDatabaseError, Answer, Goto
    <3> QED BY <1>1, <3>1
  <2> HIDE DEF Handles
  <2> QED BY <1>2, <2>1, <2>2, <2>3, <2>4, <2>5, <2>6, <2>7, <2>8 DEF Handle
<1>3. ASSUME NEW s \in Servers, Work(s) \/ WorkerDatabaseError(s) \/ Crash(s) \/ Stop(s)
      PROVE  Handles /\ UNCHANGED seen
  <2>1. CASE Work(s) \/ WorkerDatabaseError(s) \/ Stop(s)
    BY <2>1 DEF Work, WorkerFind, WorkerCheck, WorkerWrite, WorkerDatabaseError, Stop, handlers
  <2>2. CASE Crash(s)
    <3>1. UNCHANGED <<read, seen>>
      BY <2>2 DEF Crash
    <3>2. \A q \in Requests :
            /\ pc'[q] = pc[q] \/ pc'[q] = "done"
            /\ reply'[q] = reply[q] \/ reply'[q] = -1
      BY <2>2 DEF Crash
    <3>3. ASSUME NEW q \in Requests
          PROVE  /\ read'[q] = read[q] \/ (read'[q] \in Readable(LogOf(q)) /\ UNCHANGED storage)
                 /\ pc'[q] = "reread" => read'[q] = read[q] /\ (pc[q] = "reread" \/ read[q] > 0)
                 /\ reply'[q] = 404 => reply[q] = 404 \/ (pc[q] = "reread" /\ 0 \in Readable(LogOf(q)))
      <4>1. /\ pc'[q] = pc[q] \/ pc'[q] = "done"
            /\ reply'[q] = reply[q] \/ reply'[q] = -1
        BY <3>2
      <4> QED BY <3>1, <4>1
    <3> QED BY <3>1, <3>3
  <2> HIDE DEF Handles
  <2> QED BY <1>3, <2>1, <2>2
<1>4. ASSUME NEW d \in Secondaries, NEW l \in Logs, Replicate(d, l)
      PROVE  Handles /\ UNCHANGED seen
  BY <1>4 DEF Replicate, handlers
<1>5. ASSUME NEW l \in Logs, Poll(l)
      PROVE  /\ Handles
             /\ \A m \in Logs :
                  seen'[m] = seen[m] \/ (UNCHANGED storage /\ \E i \in Readable(m) : seen'[m] = Told(m, i))
  <2>1. Handles /\ UNCHANGED storage
    BY <1>5 DEF Poll, handlers
  <2>2. PICK i \in Readable(l) : seen' = [seen EXCEPT ![l] = Told(l, i)]
    BY <1>5 DEF Poll
  <2>3. \A m \in Logs : seen'[m] = IF m = l THEN Told(l, i) ELSE seen[m]
    BY <1>1, <2>2
  <2> HIDE DEF Handles
  <2> QED BY <2>1, <2>3
<1>6. Handles /\ \A l \in Logs :
          seen'[l] = seen[l] \/ (UNCHANGED storage /\ \E i \in Readable(l) : seen'[l] = Told(l, i))
  <2> HIDE DEF Handles
  <2> QED BY <1>2, <1>3, <1>4, <1>5 DEF Next
<1> QED BY <1>6

LEMMA OneNodeStep ==
    ASSUME OneNode, IInv, OneNodeInv, IInv', [Next]_vars
    PROVE  /\ OneNodeInv'
           /\ \A l \in Logs : Progress(seen[l]) <= Progress(seen'[l])
<1>1. ASSUME NEW l \in Logs PROVE Progress(seen[l]) \in 0..3
  <2>1. seen[l] \in Statuses \/ seen[l] = "unpolled"
    BY DEF IInv, TypeOK
  <2>2. Progress("unpolled") = 0
    BY DEF Progress, FinalStatuses
  <2> QED BY <2>1, <2>2, ProgressIsNat
<1>2. \A r \in Requests : LogOf(r) \in Logs
  BY UploadStatus DEF IInv
<1>3. CASE UNCHANGED vars
  <2>1. UNCHANGED <<history, applied, call, pc, read, reply, seen>>
    BY <1>3 DEF vars
  <2>2. ReadsMoveForward' /\ RereadsFollowAFind' /\ NeverNotFound'
    BY <2>1 DEF OneNodeInv, ReadsMoveForward, RereadsFollowAFind, NeverNotFound, Readable, LogOf
  <2>3. StatusesMoveForward'
    BY <2>1 DEF OneNodeInv, StatusesMoveForward, Progress, FinalStatuses
  <2>4. AnswersAreRead'
    <3>1. ASSUME NEW l \in Logs, NEW j, j \in Readable(l)'
          PROVE  Progress(seen'[l]) <= Progress(Told(l, j))'
      <4>1. j \in Readable(l)
        BY <2>1, <3>1 DEF Readable
      <4>2. PICK told : told = Told(l, j)
        OBVIOUS
      <4>3. Progress(seen[l]) <= Progress(told)
        BY <4>1, <4>2 DEF OneNodeInv, AnswersAreRead
      <4>4. Told(l, j)' = told
        BY <2>1, <4>2 DEF Told, DefaultStatus
      <4> QED BY <2>1, <4>3, <4>4 DEF Progress, FinalStatuses
    <3> QED BY <3>1 DEF AnswersAreRead
  <2> QED BY <1>1, <2>1, <2>2, <2>3, <2>4 DEF OneNodeInv
<1>4. CASE Next
  <2>1. /\ call' = call
        /\ \A r \in Requests : LogOf(r)' = LogOf(r)
    BY <1>4, StepGrows DEF LogOf
  <2>2. \A r \in Requests :
          /\ read'[r] = read[r] \/ (read'[r] \in Readable(LogOf(r)) /\ UNCHANGED storage)
          /\ pc'[r] = "reread" => read'[r] = read[r] /\ (pc[r] = "reread" \/ read[r] > 0)
          /\ reply'[r] = 404 => reply[r] = 404 \/ (pc[r] = "reread" /\ 0 \in Readable(LogOf(r)))
    BY <1>4, StepReads
  <2>3. ReadsMoveForward'
    <3> SUFFICES ASSUME NEW r \in Requests, NEW j, j \in Readable(LogOf(r))'
                 PROVE  read'[r] <= j
      BY DEF ReadsMoveForward
    <3>1. PICK l \in Logs : l = LogOf(r)
      BY <1>2
    <3>2. j \in Readable(l)'
      BY <2>1, <3>1 DEF Readable
    <3>3. CASE read'[r] = read[r]
      <4>1. PICK i : i \in Readable(l)
        BY <3>2 DEF Readable
      <4>2. read[r] <= i /\ i <= j
        BY <1>4, <3>1, <3>2, <4>1, ReadableGrows DEF OneNodeInv, ReadsMoveForward
      <4>3. read[r] \in Nat /\ i \in Nat /\ j \in Nat
        <5>1. j \in Nat
          BY <3>2 DEF Readable, IInv, TypeOK
        <5> QED BY <4>1, <5>1, ReadableIsCommitted DEF IInv, TypeOK
      <4> QED BY <3>3, <4>2, <4>3
    <3>4. CASE read'[r] \in Readable(l) /\ UNCHANGED storage
      <4>1. Readable(l)' = Readable(l)
        BY <3>4 DEF storage, Readable
      <4>2. j = read'[r]
        BY <3>2, <3>4, <4>1, OneNodeReads
      <4>3. j \in Nat
        BY <3>2, <4>1, ReadableIsCommitted
      <4> QED BY <4>2, <4>3
    <3> QED BY <2>2, <3>1, <3>3, <3>4
  <2>4. RereadsFollowAFind'
    BY <2>2 DEF OneNodeInv, RereadsFollowAFind
  <2>5. StatusesMoveForward'
    BY <1>4, StepMovesForward DEF OneNodeInv
  <2>6. NeverNotFound'
    <3> SUFFICES ASSUME NEW r \in Requests PROVE reply'[r] # 404
      BY DEF NeverNotFound
    <3>1. ~(pc[r] = "reread" /\ 0 \in Readable(LogOf(r)))
      <4> SUFFICES ASSUME pc[r] = "reread", 0 \in Readable(LogOf(r)) PROVE FALSE
        OBVIOUS
      <4>1. read[r] > 0 /\ read[r] <= 0 /\ read[r] \in Nat
        BY DEF OneNodeInv, RereadsFollowAFind, ReadsMoveForward, IInv, TypeOK
      <4> QED BY <4>1
    <3> QED BY <2>2, <3>1 DEF OneNodeInv, NeverNotFound
  <2>7. ASSUME NEW l \in Logs
        PROVE  /\ Progress(seen[l]) <= Progress(seen'[l])
               /\ \A j \in Readable(l)' : Progress(seen'[l]) <= Progress(Told(l, j))'
    <3>1. CASE seen'[l] = seen[l]
      <4>1. Progress(seen[l]) <= Progress(seen'[l])
        BY <1>1, <3>1
      <4>2. ASSUME NEW j, j \in Readable(l)' PROVE Progress(seen'[l]) <= Progress(Told(l, j))'
        <5>1. PICK i : i \in Readable(l)
          BY <4>2 DEF Readable
        <5>2. i <= j /\ i \in Nat /\ i <= Len(history[l]) /\ Len(history[l]) \in Nat
          BY <1>4, <4>2, <5>1, ReadableGrows, ReadableIsCommitted DEF IInv, TypeOK
        <5>3. PICK told : told = Told(l, i)
          OBVIOUS
        <5>4. Progress(seen[l]) <= Progress(told)
          BY <5>1, <5>3 DEF OneNodeInv, AnswersAreRead
        <5>5. PICK h : h = history'[l]
          OBVIOUS
        <5>6. told = (IF i = 0 THEN DefaultStatus ELSE h[i].status)
          BY <1>4, <5>2, <5>3, <5>5, StepGrows DEF Told
        <5>7. PICK later : later = (IF j = 0 THEN DefaultStatus ELSE h[j].status)
          OBVIOUS
        <5>8. Told(l, j)' = later
          BY <5>5, <5>7 DEF Told, DefaultStatus
        <5>9. i \in 0..Len(h) /\ j \in 0..Len(h) /\ h \in Seq(Docs)
          <6>1. Len(history[l]) <= Len(h) /\ Len(h) \in Nat /\ h \in Seq(Docs)
            BY <1>4, <5>5, StepGrows DEF IInv, TypeOK
          <6>2. j \in Nat /\ j <= Len(h)
            BY <4>2, <5>5, <6>1 DEF Readable, IInv, TypeOK, ReadsAreCommitted
          <6> QED BY <5>2, <6>1, <6>2
        <5>10. \A x, y \in 1..Len(h) : x <= y => Progress(h[x].status) <= Progress(h[y].status)
          BY <2>5, <5>5 DEF StatusesMoveForward, Progress, FinalStatuses
        <5>11. /\ Progress(told) \in 1..3 /\ Progress(later) \in 1..3
               /\ Progress(told) <= Progress(later)
          BY <5>2, <5>6, <5>7, <5>9, <5>10, ToldMovesForward
        <5>12. Progress(seen[l]) <= Progress(later)
          BY <1>1, <5>4, <5>11
        <5> QED BY <3>1, <5>8, <5>12 DEF Progress, FinalStatuses
      <4> QED BY <4>1, <4>2
    <3>2. ASSUME UNCHANGED storage, NEW i \in Readable(l), seen'[l] = Told(l, i)
          PROVE  <2>7!2!1 /\ <2>7!2!2
      <4>1. Progress(seen[l]) <= Progress(seen'[l])
        BY <3>2 DEF OneNodeInv, AnswersAreRead
      <4>2. ASSUME NEW j, j \in Readable(l)' PROVE Progress(seen'[l]) <= Progress(Told(l, j))'
        <5>1. i = j
          <6>1. j \in Readable(l)
            BY <3>2, <4>2 DEF storage, Readable
          <6> QED BY <3>2, <6>1, OneNodeReads
        <5>2. PICK told : told = Told(l, i)
          OBVIOUS
        <5>3. told \in Statuses
          <6>1. i \in Nat /\ i <= Len(history[l]) /\ Len(history[l]) \in Nat
            BY <3>2, ReadableIsCommitted DEF IInv, TypeOK
          <6>2. i # 0 => history[l][i] \in Docs
            BY <6>1 DEF IInv, TypeOK
          <6> QED BY <5>2, <6>2 DEF Told, DefaultStatus, Docs, Statuses
        <5>4. Progress(told) \in 1..3
          BY <5>3, ProgressIsNat
        <5>5. seen'[l] = told /\ Told(l, j)' = told
          BY <3>2, <5>1, <5>2 DEF storage, Told, DefaultStatus
        <5>6. Progress(told) <= Progress(told)
          BY <5>4
        <5> QED BY <5>5, <5>6 DEF Progress, FinalStatuses
      <4> QED BY <4>1, <4>2
    <3> QED BY <1>4, <3>1, <3>2, StepReads
  <2>8. AnswersAreRead'
    BY <2>7 DEF AnswersAreRead
  <2> QED BY <2>3, <2>4, <2>5, <2>6, <2>7, <2>8 DEF OneNodeInv
<1> QED BY <1>3, <1>4

LEMMA OneNodeInit == Init => OneNodeInv
<1> SUFFICES ASSUME Init PROVE OneNodeInv
  OBVIOUS
<1>1. /\ \A l \in Logs : history[l] = <<>> /\ Len(history[l]) = 0 /\ seen[l] = "unpolled"
      /\ \A d \in Secondaries, l \in Logs : applied[d][l] = 0
      /\ \A r \in Requests : read[r] = 0 /\ pc[r] = "unsent" /\ reply[r] = 0 /\ LogOf(r) \in Logs
  BY DEF Init, LogOf, Calls
<1>2. \A l \in Logs : \A i \in Readable(l) : i = 0
  BY <1>1 DEF Readable
<1>3. ReadsMoveForward /\ RereadsFollowAFind /\ StatusesMoveForward /\ NeverNotFound
  BY <1>1, <1>2 DEF ReadsMoveForward, RereadsFollowAFind, StatusesMoveForward, NeverNotFound
<1>4. AnswersAreRead
  <2>1. Progress("unpolled") = 0 /\ Progress("preprocessing") = 1
    BY DEF Progress, FinalStatuses
  <2> QED BY <1>1, <1>2, <2>1 DEF AnswersAreRead, Told, DefaultStatus
<1> QED BY <1>3, <1>4 DEF OneNodeInv

\* With one node to read from, update() never answers "not found": the log that
\* the handler found is still found by the second read.
THEOREM FoundStaysFound == ASSUME OneNode PROVE Spec => []NeverNotFound
<1>1. IInv /\ OneNodeInv /\ IInv' /\ [Next]_vars => OneNodeInv'
  BY OneNodeStep
<1>2. OneNodeInv => NeverNotFound
  BY DEF OneNodeInv
<1> QED BY <1>1, <1>2, OneNodeInit, InductiveInvariant, PTL DEF Spec

\* With one node to read from, a client never sees a log move back.
THEOREM AnswersForward == ASSUME OneNode PROVE Spec => AnswersMoveForward
<1>1. IInv /\ OneNodeInv /\ IInv' /\ [Next]_vars => OneNodeInv'
  BY OneNodeStep
<1>2. IInv /\ OneNodeInv /\ IInv' /\ [Next]_vars =>
        [\A l \in Logs : Progress(seen[l]) <= Progress(seen'[l])]_seen
  BY OneNodeStep
<1> QED BY <1>1, <1>2, OneNodeInit, InductiveInvariant, PTL DEF Spec, AnswersMoveForward
--------------------------------------------------------------------------------
(* The in-memory repository: what the steps keep of IInv *)

LEMMA MemoryFindExistingInv ==
    ASSUME IInv, MemoryInv, NEW r \in Requests, MemoryFindExisting(r)
    PROVE  IInv'
<1>1. LogOf(r) \in Logs
  BY UploadStatus DEF IInv
<1>2. PICK i \in Nat : i = cached[LogOf(r)] /\ i <= Len(history[LogOf(r)])
  BY <1>1 DEF MemoryInv, MemoryTypeOK, CopyLags
<1>3. /\ pc[r] = "find"
      /\ read' = [read EXCEPT ![r] = i]
      /\ IF i > 0 /\ ~CanTransition(history[LogOf(r)][i].status, NewStatus(r))
         THEN Answer(r, 409)
         ELSE Goto(r, "write") /\ UNCHANGED reply
      /\ UNCHANGED <<history, applied, call, tasks, worker, seen, faults>>
  BY <1>2 DEF MemoryFindExisting, storage, pools
<1> QED BY <1>2, <1>3, FindInv

\* The two branches are those of WriteUpload.
LEMMA MemoryWriteUploadWrites ==
    ASSUME NEW r, MemoryWriteUpload(r)
    PROVE  WriteUpload(r)
  BY DEF MemoryWriteUpload, MemoryInsert, MemoryUpdate, WriteUpload, StoreUpload

\* A version that was read stays, so update() finds the log.
LEMMA MemoryConflictAnswers ==
    ASSUME IInv, NEW r \in Requests, MemoryConflict(r)
    PROVE  Answer(r, 409)
<1>1. read[r] > 0 => ~IdIsFree(LogOf(r))
  <2> SUFFICES ASSUME read[r] > 0, history[LogOf(r)] = <<>> PROVE FALSE
    BY DEF IdIsFree
  <2>1. read[r] <= Len(history[LogOf(r)]) /\ read[r] \in Nat
    BY DEF IInv, ReadsAreCommitted, TypeOK
  <2>2. Len(history[LogOf(r)]) = 0
    OBVIOUS
  <2> QED BY <2>1, <2>2
<1> QED BY <1>1 DEF MemoryConflict

LEMMA MemoryConflictInv ==
    ASSUME IInv, NEW r \in Requests, MemoryConflict(r)
    PROVE  IInv'
<1>1. /\ UNCHANGED <<history, applied, call, read, tasks, worker, seen>>
      /\ faults' \in Nat
  BY DEF MemoryConflict, storage, pools, IInv, TypeOK
<1> QED BY <1>1, MemoryConflictAnswers, AnswerInv

\* The validation that was pending in the handler now runs in the process.
LEMMA StartInlineInv ==
    ASSUME IInv, NEW r \in Requests, StartInline(r)
    PROVE  IInv'
<1>1. /\ pc[r] = "start"
      /\ pc' = [pc EXCEPT ![r] = "done"] /\ reply' = [reply EXCEPT ![r] = 202]
      /\ UNCHANGED <<history, applied, call, read, tasks, worker, seen, faults>>
      /\ pc \in [Requests -> PCs] /\ reply \in [Requests -> Replies]
  BY DEF StartInline, Answer, Goto, storage, pools, IInv, TypeOK
<1>2. /\ DocumentsConsistent' /\ FinalIsLast'
      /\ \A m \in Logs : Status(m)' = Status(m) /\ Latest(m)' = Latest(m)
      /\ \A q \in Requests : /\ LogOf(q)' = LogOf(q) /\ NewStatus(q)' = NewStatus(q)
                             /\ DecidesUpload(q)' = DecidesUpload(q) /\ LogOf(q) \in Logs
  BY <1>1, QuietKeeps, UploadStatus DEF IInv
<1>3. TypeOK'
  BY <1>1 DEF IInv, TypeOK, PCs, Replies
<1>4. ReadsAreCommitted' /\ IdleWhenEmpty'
  BY <1>1, <1>2 DEF IInv, ReadsAreCommitted, IdleWhenEmpty, Task
<1>5. DecisionsAreLegal'
  BY <1>1, <1>2 DEF IInv, DecisionsAreLegal, Found
<1>6. OneValidationPerLog'
  <2>1. \A q \in Requests : pc'[q] = "start" => pc[q] = "start"
    BY <1>1
  <2>2. \A s \in Servers : \A i \in 1..Len(tasks[s]) : tasks[s][i] \in Logs
    BY DEF IInv, TypeOK
  <2> QED BY <1>1, <1>2, <2>1, <2>2 DEF IInv, OneValidationPerLog
<1>7. UnansweredWhileRunning'
  BY <1>1 DEF IInv, UnansweredWhileRunning
<1>8. StoredOutcomesStand'
  <2>1. \A q \in Requests : Stored(q)' => Stored(q)
    BY <1>1, <1>2 DEF Stored
  <2> QED BY <1>1, <1>2, <2>1 DEF IInv, StoredOutcomesStand
<1>9. FinalAnswerIsTrue'
  BY <1>1, <1>2 DEF IInv, FinalAnswerIsTrue
<1> QED BY <1>2, <1>3, <1>4, <1>5, <1>6, <1>7, <1>8, <1>9 DEF IInv

\* A running validation is the outcome of its callback, and the only one: no
\* other callback of the log is about to start one, or has.
LEMMA RunningIsAlone ==
    ASSUME IInv, MemoryInv, NEW r \in Requests, Running(r),
           NEW q \in Requests, LogOf(q) = LogOf(r)
    PROVE  pc[q] # "start" /\ (Running(q) => q = r)
<1>1. \A p \in Requests : (pc[p] = "start" \/ Running(p)) => Stored(p)
  <2> SUFFICES ASSUME NEW p \in Requests, pc[p] = "start" \/ Running(p) PROVE Stored(p)
    OBVIOUS
  <2>1. NewStatus(p) = "validating" /\ (Running(p) => reply[p] = 202)
    BY DEF MemoryInv, ValidationsAreOwed
  <2>2. DecidesUpload(p)
    BY <2>1, UploadStatus DEF IInv
  <2> QED BY <2>1, <2>2 DEF Stored
<1>2. Stored(q) => q = r
  BY <1>1 DEF IInv, StoredOutcomesStand
<1>3. pc[r] # "start"
  BY DEF MemoryInv, ValidationsAreOwed, IInv, UnansweredWhileRunning
<1> QED BY <1>1, <1>2, <1>3

\* A verdict that is stored is about the stored file of a log that waits for it.
LEMMA InlineVerdictCommits ==
    ASSUME IInv, MemoryInv, NEW r \in Requests, validation[r].at = "write",
           validation[r].verdict # "unsaveable",
           MemoryUpdate(LogOf(r), InlineChecked(r).version, InlineDoc(r))
    PROVE  \E l \in Logs, doc \in Docs :
              /\ l = LogOf(r)
              /\ Status(l) = "validating"
              /\ Commit(l, doc)
              /\ doc.status \in Concluded
              /\ doc.file = Latest(l).file
              /\ ConsistentDoc(doc, Len(history[l]) + 1)
<1>1. PICK l \in Logs : l = LogOf(r)
  BY UploadStatus DEF IInv
<1>2. Status(l) = "validating" /\ validation[r].read \in 1..Len(history[l])
  BY <1>1 DEF MemoryInv, ValidationsAreOwed, Running
<1>3. PICK i \in 1..Len(history[l]) : i = validation[r].read
  BY <1>2
<1>4. PICK verdict \in {"validated", "invalid"} : verdict = validation[r].verdict
  BY DEF MemoryInv, MemoryTypeOK, Verdicts
<1>5. PICK doc : doc = InlineDoc(r)
  OBVIOUS
<1>6. /\ VersionMatches(l, history[l][i].version) /\ Commit(l, doc)
      /\ doc = [Latest(l) EXCEPT
                  !.version = IncVersion(Latest(l)),
                  !.status = verdict,
                  !.failureReason = SetIfGiven(IF verdict = "invalid" THEN "given" ELSE "none", @),
                  !.validation = history[l][i].file.uri]
  BY <1>1, <1>3, <1>4, <1>5 DEF MemoryUpdate, InlineChecked, InlineDoc
<1> QED BY <1>1, <1>2, <1>6, VerdictIsConsistent

\* The verdict ends the wait of its log.
LEMMA InlineCommitInv ==
    ASSUME IInv, NEW l \in Logs, NEW doc \in Docs, Commit(l, doc),
           doc.status \in Concluded, doc.file = Latest(l).file,
           ConsistentDoc(doc, Len(history[l]) + 1), Status(l) = "validating",
           UNCHANGED <<applied, call, pc, read, reply, tasks, worker, seen, faults>>,
           \A s \in Servers : tasks[s] = <<>>,
           \A q \in Requests : pc[q] = "start" => LogOf(q) # l
    PROVE  IInv'
<1>1. Status(l) \notin FinalStatuses
  BY DEF FinalStatuses
<1>2. /\ history' \in [Logs -> Seq(Docs)]
      /\ DocumentsConsistent' /\ FinalIsLast'
      /\ \A m \in Logs : /\ Len(history[m]) \in Nat /\ Len(history'[m]) \in Nat
                         /\ Len(history[m]) <= Len(history'[m])
      /\ \A m \in Logs : \A i \in 1..Len(history[m]) :
                         /\ history'[m][i] = history[m][i]
                         /\ i \in 1..Len(history'[m])
  BY <1>1, CommitKeeps
<1>3. /\ Latest(l)' = doc /\ Status(l)' = doc.status
      /\ \A m \in Logs : m # l => Status(m)' = Status(m) /\ Latest(m)' = Latest(m)
  BY CommitAppends DEF IInv, TypeOK
<1>4. \A q \in Requests : /\ LogOf(q)' = LogOf(q) /\ NewStatus(q)' = NewStatus(q)
                          /\ Stored(q)' = Stored(q) /\ LogOf(q) \in Logs
  BY UploadStatus DEF IInv, LogOf, NewStatus, DecidesUpload, Stored
<1>5. TypeOK'
  BY <1>2 DEF IInv, TypeOK
<1>6. ReadsAreCommitted'
  BY <1>2, <1>4 DEF IInv, ReadsAreCommitted, TypeOK
<1>7. DecisionsAreLegal'
  <2> SUFFICES ASSUME NEW q \in Requests, pc[q] = "write", read[q] > 0
               PROVE  CanTransition(history'[LogOf(q)][read[q]].status, NewStatus(q))
    BY <1>4 DEF DecisionsAreLegal, Found, CanTransition, ValidTransitions
  <2>1. read[q] \in 1..Len(history[LogOf(q)])
    BY <1>2, <1>4 DEF IInv, ReadsAreCommitted, TypeOK
  <2> QED BY <1>2, <1>4, <2>1 DEF IInv, DecisionsAreLegal, Found
<1>8. OneValidationPerLog'
  <2>1. ASSUME NEW q \in Requests, pc[q] = "start" PROVE Status(LogOf(q))' = "validating"
    <3>1. PICK m \in Logs : m = LogOf(q)
      BY <1>4
    <3>2. m # l /\ Status(m) = "validating"
      BY <2>1, <3>1 DEF IInv, OneValidationPerLog
    <3> QED BY <1>3, <1>4, <3>1, <3>2 DEF Status, Latest
  <2>2. \A s \in Servers : 1..Len(tasks[s]) = {}
    OBVIOUS
  <2> QED BY <1>4, <2>1, <2>2 DEF IInv, OneValidationPerLog
<1>9. StoredOutcomesStand'
  <2> SUFFICES ASSUME NEW q \in Requests, Stored(q)
               PROVE  /\ Status(LogOf(q))' \notin {"absent", "preprocessing"}
                      /\ Latest(LogOf(q))'.file.id = call[q].upload.fileId
                      /\ Latest(LogOf(q))'.file.status = call[q].upload.fileStatus
                      /\ \A t \in Requests : Stored(t) /\ LogOf(t) = LogOf(q) => t = q
    BY <1>4 DEF StoredOutcomesStand
  <2>1. CASE LogOf(q) = l
    <3>1. Latest(LogOf(q))' = doc /\ Status(LogOf(q))' = doc.status
      BY <1>3, <1>4, <2>1 DEF Status, Latest
    <3> QED BY <2>1, <3>1 DEF IInv, StoredOutcomesStand, Concluded
  <2>2. CASE LogOf(q) # l
    <3>1. Latest(LogOf(q))' = Latest(LogOf(q)) /\ Status(LogOf(q))' = Status(LogOf(q))
      BY <1>3, <1>4, <2>2 DEF Status, Latest
    <3> QED BY <3>1 DEF IInv, StoredOutcomesStand
  <2> QED BY <2>1, <2>2
<1>10. FinalAnswerIsTrue'
  BY <1>1, <1>3 DEF IInv, FinalAnswerIsTrue
<1>11. UnansweredWhileRunning' /\ IdleWhenEmpty'
  BY DEF IInv, UnansweredWhileRunning, IdleWhenEmpty
<1> QED BY <1>2, <1>5, <1>6, <1>7, <1>8, <1>9, <1>10, <1>11 DEF IInv

LEMMA InlineWriteInv ==
    ASSUME IInv, MemoryInv, NEW r \in Requests, InlineWrite(r)
    PROVE  IInv'
<1>1. UNCHANGED <<applied, call, pc, read, reply, tasks, worker, seen, faults>>
  BY DEF InlineWrite, handlers, pools
<1>2. CASE UNCHANGED history
  BY <1>1, <1>2, StutterInv DEF vars
<1>3. CASE /\ validation[r].verdict # "unsaveable"
           /\ MemoryUpdate(LogOf(r), InlineChecked(r).version, InlineDoc(r))
  <2>1. validation[r].at = "write" /\ Running(r)
    BY DEF InlineWrite, Running
  <2>2. PICK l \in Logs, doc \in Docs :
              /\ l = LogOf(r)
              /\ Status(l) = "validating"
              /\ Commit(l, doc)
              /\ doc.status \in Concluded
              /\ doc.file = Latest(l).file
              /\ ConsistentDoc(doc, Len(history[l]) + 1)
    BY <1>3, <2>1, InlineVerdictCommits
  <2>3. \A q \in Requests : pc[q] = "start" => LogOf(q) # l
    BY <2>1, <2>2, RunningIsAlone
  <2>4. \A s \in Servers : tasks[s] = <<>>
    BY DEF MemoryInv
  <2> QED BY <1>1, <2>2, <2>3, <2>4, InlineCommitInv
<1> QED BY <1>2, <1>3 DEF InlineWrite

LEMMA InlineCheckInv ==
    ASSUME IInv, NEW r \in Requests, InlineCheck(r)
    PROVE  IInv'
<1>1. /\ UNCHANGED <<history, applied, call, pc, read, reply, tasks, worker, seen>>
      /\ faults' \in Nat
  BY DEF InlineCheck, Fail, storage, handlers, pools, IInv, TypeOK
<1>2. TypeOK'
  BY <1>1 DEF IInv, TypeOK
<1> QED BY <1>1, <1>2, ObserverInv DEF IInv, ReadsAreCommitted, FinalAnswerIsTrue

LEMMA MemoryPollInv ==
    ASSUME IInv, MemoryInv, NEW l \in Logs, MemoryPoll(l)
    PROVE  IInv'
<1>1. PICK i \in Nat : i = cached[l] /\ i <= Len(history[l])
  BY DEF MemoryInv, MemoryTypeOK, CopyLags
<1>2. /\ seen' = [seen EXCEPT ![l] = Told(l, i)]
      /\ UNCHANGED <<history, applied, call, pc, read, reply, tasks, worker, faults>>
  BY <1>1 DEF MemoryPoll, storage, handlers, pools
<1> QED BY <1>1, <1>2, TellInv
--------------------------------------------------------------------------------
(* The in-memory repository: the copy and the validations *)

\* A copy that moves on through what is stored shows no less.
LEMMA CopyAdvances ==
    ASSUME IInv, MemoryInv, StatusesMoveForward', UNCHANGED seen,
           history' \in [Logs -> Seq(Docs)], cached' \in [Logs -> Nat],
           \A l \in Logs : cached[l] <= cached'[l] /\ cached'[l] <= Len(history'[l]),
           \A l \in Logs : \A i \in 1..Len(history[l]) : history'[l][i] = history[l][i]
    PROVE  CopyLags' /\ CopyShowsProgress'
<1>1. CopyLags'
  BY DEF CopyLags
<1>2. ASSUME NEW l \in Logs PROVE Progress(seen'[l]) <= Progress(Told(l, cached[l]))'
  <2>1. PICK h \in Seq(Docs), i \in Nat, j \in Nat :
          h = history'[l] /\ i = cached[l] /\ j = cached'[l]
    BY DEF MemoryInv, MemoryTypeOK
  <2>2. i <= j /\ j <= Len(h) /\ Len(h) \in Nat /\ i <= Len(history[l]) /\ Len(history[l]) \in Nat
    BY <2>1 DEF MemoryInv, CopyLags, IInv, TypeOK
  <2>3. PICK first : first = (IF i = 0 THEN DefaultStatus ELSE h[i].status)
    OBVIOUS
  <2>4. PICK second : second = (IF j = 0 THEN DefaultStatus ELSE h[j].status)
    OBVIOUS
  <2>5. \A x, y \in 1..Len(h) : x <= y => Progress(h[x].status) <= Progress(h[y].status)
    BY <2>1 DEF StatusesMoveForward, Progress, FinalStatuses
  <2>6. /\ Progress(first) \in 1..3 /\ Progress(second) \in 1..3
        /\ Progress(first) <= Progress(second)
    <3>1. i \in 0..Len(h) /\ j \in 0..Len(h)
      BY <2>2
    <3> QED BY <2>2, <2>3, <2>4, <2>5, <3>1, ToldMovesForward
  <2>7. Told(l, cached[l]) = first
    <3>1. i # 0 => i \in 1..Len(history[l])
      BY <2>2
    <3> QED BY <2>1, <2>3, <3>1 DEF Told
  <2>8. Told(l, cached[l])' = second
    BY <2>1, <2>4 DEF Told, DefaultStatus
  <2>9. Progress(seen[l]) <= Progress(first) /\ Progress(seen[l]) \in 0..3
    <3>1. Progress(seen[l]) <= Progress(first)
      BY <2>7 DEF MemoryInv, CopyShowsProgress
    <3>2. seen[l] \in Statuses \/ seen[l] = "unpolled"
      BY DEF IInv, TypeOK
    <3>3. Progress("unpolled") = 0
      BY DEF Progress, FinalStatuses
    <3> QED BY <3>1, <3>2, <3>3, ProgressIsNat
  <2>10. Progress(seen[l]) <= Progress(second)
    BY <2>6, <2>9
  <2> QED BY <2>8, <2>10 DEF Progress, FinalStatuses
<1> QED BY <1>1, <1>2 DEF CopyShowsProgress

LEMMA CopyShownKept ==
    ASSUME CopyShowsProgress, UNCHANGED <<history, seen, cached>>
    PROVE  CopyShowsProgress'
<1>1. ASSUME NEW l \in Logs PROVE Progress(seen'[l]) <= Progress(Told(l, cached[l]))'
  <2>1. PICK told : told = Told(l, cached[l])
    OBVIOUS
  <2>2. Told(l, cached[l])' = told
    BY <2>1 DEF Told, DefaultStatus
  <2>3. Progress(seen'[l]) <= Progress(told)
    BY <2>1 DEF CopyShowsProgress
  <2> QED BY <2>2, <2>3 DEF Progress, FinalStatuses
<1> QED BY <1>1 DEF CopyShowsProgress

\* A handler that moves without storing, starting or answering "not found".
LEMMA MemoryHandlerStep ==
    ASSUME IInv, MemoryInv, NEW r \in Requests, pc[r] # "done",
           UNCHANGED <<history, call, tasks, seen, cached, pending, validation>>,
           \A q \in Requests \ {r} : pc'[q] = pc[q] /\ reply'[q] = reply[q],
           pc'[r] # "start", reply'[r] # 404
    PROVE  MemoryInv'
<1>1. reply[r] = 0
  BY DEF IInv, UnansweredWhileRunning
<1>2. MemoryTypeOK' /\ CopyLags' /\ \A s \in Servers : tasks'[s] = <<>>
  BY DEF MemoryInv, MemoryTypeOK, CopyLags
<1>3. ValidationsAreOwed'
  BY <1>1 DEF MemoryInv, ValidationsAreOwed, Running, NewStatus, Status, LogOf, Latest
<1>4. StatusesMoveForward' /\ CopyShowsProgress'
  <2>1. StatusesMoveForward'
    BY ForwardKept DEF MemoryInv
  <2>2. CopyShowsProgress'
    BY CopyShownKept DEF MemoryInv
  <2> QED BY <2>1, <2>2
<1>5. NeverNotFound'
  BY DEF MemoryInv, NeverNotFound
<1> QED BY <1>2, <1>3, <1>4, <1>5 DEF MemoryInv

LEMMA MemoryReceiveKeeps ==
    ASSUME IInv, MemoryInv, NEW r \in Requests, Receive(r), UNCHANGED memory
    PROVE  MemoryInv'
<1>1. pc \in [Requests -> PCs] /\ reply[r] = 0 /\ pc[r] = "unsent"
  BY DEF IInv, TypeOK, UnansweredWhileRunning, Receive
<1>2. /\ pc' = [pc EXCEPT ![r] = "find"] /\ reply' = reply
      /\ UNCHANGED <<history, call, tasks, seen, cached, pending, validation>>
  BY DEF Receive, Goto, storage, pools, memory
<1> QED BY <1>1, <1>2, MemoryHandlerStep

LEMMA MemoryFindExistingKeeps ==
    ASSUME IInv, MemoryInv, NEW r \in Requests, MemoryFindExisting(r)
    PROVE  MemoryInv'
<1>1. /\ pc \in [Requests -> PCs] /\ reply \in [Requests -> Replies]
      /\ reply[r] = 0 /\ pc[r] = "find"
  BY DEF IInv, TypeOK, UnansweredWhileRunning, MemoryFindExisting
<1>2. \/ pc' = [pc EXCEPT ![r] = "done"] /\ reply' = [reply EXCEPT ![r] = 409]
      \/ pc' = [pc EXCEPT ![r] = "write"] /\ reply' = reply
  BY DEF MemoryFindExisting, Answer, Goto
<1>3. UNCHANGED <<history, call, tasks, seen, cached, pending, validation>>
  BY DEF MemoryFindExisting, storage, pools, memory
<1>4. \A q \in Requests \ {r} : pc'[q] = pc[q] /\ reply'[q] = reply[q]
  BY <1>1, <1>2
<1>5. pc'[r] # "start" /\ reply'[r] # 404
  BY <1>1, <1>2
<1> QED BY <1>1, <1>3, <1>4, <1>5, MemoryHandlerStep

LEMMA MemoryConflictKeeps ==
    ASSUME IInv, MemoryInv, NEW r \in Requests, MemoryConflict(r)
    PROVE  MemoryInv'
<1>1. /\ pc \in [Requests -> PCs] /\ reply \in [Requests -> Replies]
      /\ reply[r] = 0 /\ pc[r] = "write"
  BY DEF IInv, TypeOK, UnansweredWhileRunning, MemoryConflict
<1>2. pc' = [pc EXCEPT ![r] = "done"] /\ reply' = [reply EXCEPT ![r] = 409]
  BY MemoryConflictAnswers DEF Answer, Goto
<1>3. UNCHANGED <<history, call, tasks, seen, cached, pending, validation>>
  BY DEF MemoryConflict, storage, pools, memory
<1> QED BY <1>1, <1>2, <1>3, MemoryHandlerStep

\* No validation of the log runs when an upload is stored, and the copy shows it
\* at once when it is the first.
LEMMA MemoryWriteUploadKeeps ==
    ASSUME IInv, MemoryInv, NEW r \in Requests, MemoryWriteUpload(r)
    PROVE  MemoryInv'
<1>1. pc[r] = "write" /\ StoreUpload(r) /\ reply[r] = 0
      /\ pc \in [Requests -> PCs] /\ reply \in [Requests -> Replies]
  BY MemoryWriteUploadWrites DEF WriteUpload, IInv, TypeOK, UnansweredWhileRunning
<1>2. PICK l \in Logs, doc \in Docs :
        /\ l = LogOf(r) /\ Commit(l, doc)
        /\ Status(l) \in {"absent", "preprocessing"}
  BY <1>1, UploadCommits, UploadStatus DEF IInv
<1>3. /\ history' \in [Logs -> Seq(Docs)]
      /\ Len(history'[l]) = Len(history[l]) + 1 /\ Len(history[l]) \in Nat
      /\ \A i \in 1..Len(history[l]) : history'[l][i] = history[l][i]
      /\ \A m \in Logs : m # l => /\ history'[m] = history[m]
                                  /\ Status(m)' = Status(m)
                                  /\ Latest(m)' = Latest(m)
  BY <1>2, CommitAppends DEF IInv, TypeOK
<1>4. /\ UNCHANGED <<call, tasks, seen, validation>>
      /\ \/ pc' = [pc EXCEPT ![r] = "start"] /\ reply' = reply /\ NewStatus(r) = "validating"
         \/ pc' = [pc EXCEPT ![r] = "done"] /\ reply' = [reply EXCEPT ![r] = 202]
  BY DEF MemoryWriteUpload, AfterStore, Answer, Goto, pools
<1>5. /\ cached \in [Logs -> Nat] /\ pending \in BOOLEAN
      /\ \A m \in Logs : cached[m] <= Len(history[m])
      /\ \A s \in Servers : tasks[s] = <<>>
  BY DEF MemoryInv, MemoryTypeOK, CopyLags
<1>6. StatusesMoveForward'
  BY <1>2, CommitMovesForward DEF MemoryInv
<1>7. /\ cached' \in [Logs -> Nat] /\ pending' \in BOOLEAN
      /\ \A m \in Logs : cached[m] <= cached'[m] /\ cached'[m] <= Len(history'[m])
  <2>1. CASE MemoryInsert(LogOf(r), InsertedDoc(r))
    <3>1. /\ cached' = [cached EXCEPT ![l] = 1] /\ pending' = pending /\ history[l] = <<>>
      BY <1>2, <2>1 DEF MemoryInsert, IdIsFree
    <3>2. Len(history[l]) = 0
      BY <3>1
    <3>3. \A m \in Logs : m # l => cached'[m] = cached[m] /\ Len(history'[m]) = Len(history[m])
      BY <1>3, <1>5, <3>1
    <3>4. cached'[l] = 1 /\ cached[l] <= 1 /\ 1 <= Len(history'[l])
      BY <1>3, <1>5, <3>1, <3>2
    <3>5. ASSUME NEW m \in Logs PROVE cached[m] <= cached'[m] /\ cached'[m] <= Len(history'[m])
      <4>1. CASE m = l
        BY <3>4, <4>1
      <4>2. CASE m # l
        BY <1>5, <3>3, <4>2
      <4> QED BY <4>1, <4>2
    <3> QED BY <1>5, <3>1, <3>5
  <2>2. CASE MemoryUpdate(LogOf(r), Found(r).version, UploadedDoc(r))
    <3>1. cached' = cached /\ pending' = TRUE
      BY <2>2 DEF MemoryUpdate
    <3>2. \A m \in Logs : Len(history[m]) \in Nat /\ Len(history'[m]) \in Nat
                          /\ Len(history[m]) <= Len(history'[m])
      <4>1. \A m \in Logs : Len(history[m]) \in Nat
        BY DEF IInv, TypeOK
      <4> QED BY <1>3, <4>1
    <3> QED BY <1>5, <3>1, <3>2
  <2> QED BY <2>1, <2>2 DEF MemoryWriteUpload
<1>8. \A m \in Logs : \A i \in 1..Len(history[m]) : history'[m][i] = history[m][i]
  BY <1>3
<1>9. CopyLags' /\ CopyShowsProgress'
  BY <1>3, <1>4, <1>6, <1>7, <1>8, CopyAdvances
<1>10. ValidationsAreOwed'
  <2>1. \A q \in Requests : LogOf(q)' = LogOf(q) /\ NewStatus(q)' = NewStatus(q)
                            /\ (Running(q)' <=> Running(q)) /\ LogOf(q) \in Logs
    BY <1>4, UploadStatus DEF IInv, LogOf, NewStatus, Running
  <2>2. ASSUME NEW q \in Requests, pc'[q] = "start" PROVE NewStatus(q) = "validating"
    BY <1>1, <1>4, <2>2 DEF MemoryInv, ValidationsAreOwed
  <2>3. ASSUME NEW q \in Requests, Running(q)
        PROVE  /\ reply'[q] = 202 /\ NewStatus(q) = "validating"
               /\ Status(LogOf(q))' = "validating"
               /\ validation[q].at # "find" => validation[q].read \in 1..Len(history'[LogOf(q)])
    <3>1. /\ reply[q] = 202 /\ NewStatus(q) = "validating" /\ Status(LogOf(q)) = "validating"
          /\ validation[q].at # "find" => validation[q].read \in 1..Len(history[LogOf(q)])
      BY <2>3 DEF MemoryInv, ValidationsAreOwed
    <3>2. q # r /\ reply'[q] = 202
      BY <1>1, <1>4, <3>1
    <3>3. PICK m \in Logs : m = LogOf(q) /\ m # l
      BY <1>2, <2>1, <3>1
    <3>4. Status(LogOf(q))' = "validating"
      BY <1>3, <2>1, <3>1, <3>3 DEF Status, Latest
    <3> QED BY <1>3, <3>1, <3>2, <3>3, <3>4
  <2> QED BY <1>4, <2>1, <2>2, <2>3 DEF ValidationsAreOwed
<1>11. NeverNotFound'
  BY <1>1, <1>4 DEF MemoryInv, NeverNotFound
<1>12. MemoryTypeOK' /\ \A s \in Servers : tasks'[s] = <<>>
  BY <1>4, <1>5, <1>7 DEF MemoryInv, MemoryTypeOK
<1> QED BY <1>6, <1>9, <1>10, <1>11, <1>12 DEF MemoryInv

LEMMA StartInlineKeeps ==
    ASSUME IInv, MemoryInv, NEW r \in Requests, StartInline(r)
    PROVE  MemoryInv'
<1>1. /\ pc[r] = "start" /\ NewStatus(r) = "validating" /\ Status(LogOf(r)) = "validating"
      /\ pc \in [Requests -> PCs] /\ reply \in [Requests -> Replies]
      /\ validation \in [Requests ->
            [at : {"none", "find", "check", "write"}, read : Nat, verdict : Verdicts]]
  BY DEF StartInline, MemoryInv, MemoryTypeOK, ValidationsAreOwed, IInv, TypeOK, OneValidationPerLog
<1>2. /\ pc' = [pc EXCEPT ![r] = "done"] /\ reply' = [reply EXCEPT ![r] = 202]
      /\ validation' = [validation EXCEPT ![r] = IdleWorker]
      /\ UNCHANGED <<history, call, tasks, seen, cached, pending>>
  BY DEF StartInline, Answer, Goto, storage, pools
<1>3. MemoryTypeOK'
  <2>1. IdleWorker \in [at : {"none", "find", "check", "write"}, read : Nat, verdict : Verdicts]
    BY DEF IdleWorker, Verdicts
  <2> QED BY <1>1, <1>2, <2>1 DEF MemoryInv, MemoryTypeOK
<1>4. ValidationsAreOwed'
  <2>1. \A q \in Requests : /\ LogOf(q)' = LogOf(q) /\ NewStatus(q)' = NewStatus(q)
                            /\ Status(LogOf(q))' = Status(LogOf(q))
    BY <1>2 DEF LogOf, NewStatus, Status, Latest
  <2>2. ASSUME NEW q \in Requests
        PROVE  /\ pc'[q] = "start" => NewStatus(q) = "validating"
               /\ validation'[q].at # "none" =>
                    /\ reply'[q] = 202 /\ NewStatus(q) = "validating"
                    /\ Status(LogOf(q)) = "validating"
                    /\ validation'[q].at # "find" =>
                         validation'[q].read \in 1..Len(history[LogOf(q)])
    <3>1. CASE q = r
      BY <1>1, <1>2, <3>1 DEF IdleWorker
    <3>2. CASE q # r
      <4>1. pc'[q] = pc[q] /\ reply'[q] = reply[q] /\ validation'[q] = validation[q]
        BY <1>1, <1>2, <3>2
      <4> QED BY <4>1 DEF MemoryInv, ValidationsAreOwed, Running
    <3> QED BY <3>1, <3>2
  <2> QED BY <1>2, <2>1, <2>2 DEF ValidationsAreOwed, Running
<1>5. StatusesMoveForward' /\ CopyShowsProgress' /\ CopyLags'
  <2>1. StatusesMoveForward'
    BY <1>2, ForwardKept DEF MemoryInv
  <2>2. CopyShowsProgress'
    BY <1>2, CopyShownKept DEF MemoryInv
  <2> QED BY <1>2, <2>1, <2>2 DEF MemoryInv, CopyLags
<1>6. NeverNotFound' /\ \A s \in Servers : tasks'[s] = <<>>
  BY <1>1, <1>2 DEF MemoryInv, NeverNotFound
<1> QED BY <1>3, <1>4, <1>5, <1>6 DEF MemoryInv

\* A validation moves on, or ends, without a write.
LEMMA ValidationMoves ==
    ASSUME IInv, MemoryInv, NEW r \in Requests, Running(r), NEW v,
           validation' = [validation EXCEPT ![r] = v],
           v \in [at : {"none", "find", "check", "write"}, read : Nat, verdict : Verdicts],
           v.at # "none" => v.read \in 1..Len(history[LogOf(r)]),
           UNCHANGED <<history, call, pc, reply, tasks, seen, cached, pending>>
    PROVE  MemoryInv'
<1>1. validation \in [Requests ->
            [at : {"none", "find", "check", "write"}, read : Nat, verdict : Verdicts]]
  BY DEF MemoryInv, MemoryTypeOK
<1>2. MemoryTypeOK'
  BY <1>1 DEF MemoryInv, MemoryTypeOK
<1>3. ValidationsAreOwed'
  <2>1. \A q \in Requests : /\ LogOf(q)' = LogOf(q) /\ NewStatus(q)' = NewStatus(q)
                            /\ Status(LogOf(q))' = Status(LogOf(q))
    BY DEF LogOf, NewStatus, Status, Latest
  <2>2. ASSUME NEW q \in Requests
        PROVE  /\ pc[q] = "start" => NewStatus(q) = "validating"
               /\ validation'[q].at # "none" =>
                    /\ reply[q] = 202 /\ NewStatus(q) = "validating"
                    /\ Status(LogOf(q)) = "validating"
                    /\ validation'[q].at # "find" =>
                         validation'[q].read \in 1..Len(history[LogOf(q)])
    <3>1. /\ pc[q] = "start" => NewStatus(q) = "validating"
          /\ validation[q].at # "none" =>
               /\ reply[q] = 202 /\ NewStatus(q) = "validating" /\ Status(LogOf(q)) = "validating"
               /\ validation[q].at # "find" => validation[q].read \in 1..Len(history[LogOf(q)])
      BY DEF MemoryInv, ValidationsAreOwed, Running
    <3>2. CASE q = r
      BY <1>1, <3>1, <3>2 DEF Running
    <3>3. CASE q # r
      <4>1. validation'[q] = validation[q]
        BY <1>1, <3>3
      <4> QED BY <3>1, <4>1
    <3> QED BY <3>2, <3>3
  <2> QED BY <2>1, <2>2 DEF ValidationsAreOwed, Running
<1>4. StatusesMoveForward' /\ CopyShowsProgress' /\ CopyLags'
  <2>1. StatusesMoveForward'
    BY ForwardKept DEF MemoryInv
  <2>2. CopyShowsProgress'
    BY CopyShownKept DEF MemoryInv
  <2> QED BY <2>1, <2>2 DEF MemoryInv, CopyLags
<1>5. NeverNotFound' /\ \A s \in Servers : tasks'[s] = <<>>
  BY DEF MemoryInv, NeverNotFound
<1> QED BY <1>2, <1>3, <1>4, <1>5 DEF MemoryInv

LEMMA NotRunningIsTyped ==
    /\ NotRunning.at = "none"
    /\ NotRunning \in [at : {"none", "find", "check", "write"}, read : Nat, verdict : Verdicts]
  BY DEF NotRunning, IdleWorker, Verdicts

LEMMA EditedValidation ==
    ASSUME NEW old \in [at : {"none", "find", "check", "write"}, read : Nat, verdict : Verdicts],
           NEW n \in Nat, NEW verdict \in Verdicts
    PROVE  /\ [old EXCEPT !.at = "check", !.read = n] =
                [at |-> "check", read |-> n, verdict |-> old.verdict]
           /\ [old EXCEPT !.at = "write", !.verdict = verdict] =
                [at |-> "write", read |-> old.read, verdict |-> verdict]
<1>1. PICK found : found = [old EXCEPT !.at = "check", !.read = n]
  OBVIOUS
<1>2. PICK judged : judged = [old EXCEPT !.at = "write", !.verdict = verdict]
  OBVIOUS
<1>3. found = [at |-> "check", read |-> n, verdict |-> old.verdict]
  BY <1>1
<1>4. judged = [at |-> "write", read |-> old.read, verdict |-> verdict]
  BY <1>2
<1> QED BY <1>1, <1>2, <1>3, <1>4

LEMMA InlineFindKeeps ==
    ASSUME IInv, MemoryInv, NEW r \in Requests, InlineFind(r)
    PROVE  MemoryInv'
<1>1. /\ validation[r] \in [at : {"none", "find", "check", "write"}, read : Nat, verdict : Verdicts]
      /\ validation[r].at = "find" /\ LogOf(r) \in Logs
      /\ UNCHANGED <<history, call, pc, reply, tasks, seen, cached, pending>>
  BY UploadStatus DEF InlineFind, MemoryInv, MemoryTypeOK, IInv, vars
<1>2. PICK n \in Nat : n = cached[LogOf(r)] /\ n <= Len(history[LogOf(r)])
                       /\ Len(history[LogOf(r)]) \in Nat
  BY <1>1 DEF MemoryInv, MemoryTypeOK, CopyLags, IInv, TypeOK
<1>3. CASE n = 0
  <2>1. validation' = [validation EXCEPT ![r] = NotRunning]
    BY <1>2, <1>3 DEF InlineFind
  <2> QED BY <1>1, <2>1, NotRunningIsTyped, ValidationMoves DEF Running
<1>4. CASE n # 0
  <2>1. PICK v : v = [at |-> "check", read |-> n, verdict |-> validation[r].verdict]
    OBVIOUS
  <2>2. [validation[r] EXCEPT !.at = "check", !.read = n] = v
    BY <1>1, <2>1, EditedValidation
  <2>3. validation' = [validation EXCEPT ![r] = v]
    BY <1>2, <1>4, <2>2 DEF InlineFind
  <2>4. /\ v \in [at : {"none", "find", "check", "write"}, read : Nat, verdict : Verdicts]
        /\ v.read \in 1..Len(history[LogOf(r)])
    BY <1>1, <1>2, <1>4, <2>1
  <2> QED BY <1>1, <2>3, <2>4, ValidationMoves DEF Running
<1> QED BY <1>3, <1>4

LEMMA InlineCheckKeeps ==
    ASSUME IInv, MemoryInv, NEW r \in Requests, InlineCheck(r)
    PROVE  MemoryInv'
<1>1. /\ validation[r] \in [at : {"none", "find", "check", "write"}, read : Nat, verdict : Verdicts]
      /\ validation[r].at = "check"
      /\ UNCHANGED <<history, call, pc, reply, tasks, seen, cached, pending>>
  BY DEF InlineCheck, MemoryInv, MemoryTypeOK, storage, handlers, pools
<1>2. PICK verdict \in Verdicts :
        validation' = [validation EXCEPT ![r] = [@ EXCEPT !.at = "write", !.verdict = verdict]]
  BY DEF InlineCheck
<1>3. PICK v : v = [at |-> "write", read |-> validation[r].read, verdict |-> verdict]
  OBVIOUS
<1>4. [validation[r] EXCEPT !.at = "write", !.verdict = verdict] = v
  BY <1>1, <1>3, EditedValidation
<1>5. validation' = [validation EXCEPT ![r] = v]
  BY <1>2, <1>4
<1>6. Running(r) /\ validation[r].read \in 1..Len(history[LogOf(r)])
  BY <1>1 DEF MemoryInv, ValidationsAreOwed, Running
<1>7. /\ v \in [at : {"none", "find", "check", "write"}, read : Nat, verdict : Verdicts]
      /\ v.read \in 1..Len(history[LogOf(r)])
  BY <1>1, <1>3, <1>6
<1> QED BY <1>1, <1>5, <1>6, <1>7, ValidationMoves

\* The verdict ends the one validation of its log and leaves the others theirs.
LEMMA InlineWriteKeeps ==
    ASSUME IInv, MemoryInv, NEW r \in Requests, InlineWrite(r)
    PROVE  MemoryInv'
<1>1. /\ validation[r].at = "write" /\ Running(r)
      /\ validation' = [validation EXCEPT ![r] = NotRunning]
      /\ UNCHANGED <<call, pc, reply, tasks, seen>>
  BY DEF InlineWrite, Running, handlers, pools
<1>2. CASE UNCHANGED <<history, cached, pending>>
  BY <1>1, <1>2, NotRunningIsTyped, ValidationMoves
<1>3. CASE /\ validation[r].verdict # "unsaveable"
           /\ MemoryUpdate(LogOf(r), InlineChecked(r).version, InlineDoc(r))
  <2>1. PICK l \in Logs, doc \in Docs :
              /\ l = LogOf(r)
              /\ Status(l) = "validating"
              /\ Commit(l, doc)
              /\ doc.status \in Concluded
    BY <1>1, <1>3, InlineVerdictCommits
  <2>2. /\ history' \in [Logs -> Seq(Docs)]
        /\ Len(history'[l]) = Len(history[l]) + 1 /\ Len(history[l]) \in Nat
        /\ \A i \in 1..Len(history[l]) : history'[l][i] = history[l][i]
        /\ \A m \in Logs : m # l => history'[m] = history[m] /\ Status(m)' = Status(m)
    BY <2>1, CommitAppends DEF IInv, TypeOK
  <2>3. cached' = cached /\ pending' = TRUE
    BY <1>3 DEF MemoryUpdate
  <2>4. /\ cached \in [Logs -> Nat] /\ \A s \in Servers : tasks[s] = <<>>
        /\ validation \in [Requests ->
              [at : {"none", "find", "check", "write"}, read : Nat, verdict : Verdicts]]
        /\ \A m \in Logs : Len(history[m]) \in Nat /\ cached[m] <= Len(history[m])
    BY DEF MemoryInv, MemoryTypeOK, CopyLags, IInv, TypeOK
  <2>5. MemoryTypeOK' /\ \A s \in Servers : tasks'[s] = <<>>
    BY <1>1, <2>3, <2>4, NotRunningIsTyped DEF MemoryTypeOK
  <2>6. StatusesMoveForward'
    BY <2>1, CommitMovesForward DEF MemoryInv
  <2>7. \A m \in Logs : cached[m] <= cached'[m] /\ cached'[m] <= Len(history'[m])
    <3> SUFFICES ASSUME NEW m \in Logs
                 PROVE  cached[m] <= cached'[m] /\ cached'[m] <= Len(history'[m])
      OBVIOUS
    <3>1. CASE m = l
      BY <2>2, <2>3, <2>4, <3>1
    <3>2. CASE m # l
      <4>1. history'[m] = history[m] /\ cached'[m] = cached[m]
        BY <2>2, <2>3, <3>2
      <4>2. cached[m] \in Nat /\ cached[m] <= Len(history[m])
        BY <2>4
      <4> QED BY <4>1, <4>2
    <3> QED BY <3>1, <3>2
  <2>8. CopyLags' /\ CopyShowsProgress'
    <3>1. \A m \in Logs : \A i \in 1..Len(history[m]) : history'[m][i] = history[m][i]
      BY <2>2
    <3>2. cached' \in [Logs -> Nat]
      BY <2>3, <2>4
    <3> QED BY <1>1, <2>2, <2>6, <2>7, <3>1, <3>2, CopyAdvances
  <2>9. ValidationsAreOwed'
    <3>1. \A q \in Requests : LogOf(q)' = LogOf(q) /\ NewStatus(q)' = NewStatus(q)
                              /\ LogOf(q) \in Logs
      BY <1>1, UploadStatus DEF IInv, LogOf, NewStatus
    <3>2. ASSUME NEW q \in Requests, validation'[q].at # "none"
          PROVE  /\ reply[q] = 202 /\ NewStatus(q) = "validating"
                 /\ Status(LogOf(q))' = "validating"
                 /\ validation'[q].at # "find" =>
                      validation'[q].read \in 1..Len(history'[LogOf(q)])
      <4>1. q # r
        BY <1>1, <2>4, <3>2, NotRunningIsTyped
      <4>2. validation'[q] = validation[q] /\ Running(q)
        BY <1>1, <2>4, <3>2, <4>1 DEF Running
      <4>3. PICK m \in Logs : m = LogOf(q) /\ m # l
        BY <1>1, <2>1, <3>1, <4>1, <4>2, RunningIsAlone
      <4>4. /\ reply[q] = 202 /\ NewStatus(q) = "validating" /\ Status(m) = "validating"
            /\ validation[q].at # "find" => validation[q].read \in 1..Len(history[m])
        BY <4>2, <4>3 DEF MemoryInv, ValidationsAreOwed
      <4>5. Status(LogOf(q))' = "validating"
        BY <2>2, <3>1, <4>3, <4>4 DEF Status, Latest
      <4> QED BY <2>2, <4>2, <4>3, <4>4, <4>5
    <3>3. \A q \in Requests : pc[q] = "start" => NewStatus(q) = "validating"
      BY DEF MemoryInv, ValidationsAreOwed
    <3> QED BY <1>1, <3>1, <3>2, <3>3 DEF ValidationsAreOwed, Running
  <2>10. NeverNotFound'
    BY <1>1 DEF MemoryInv, NeverNotFound
  <2> QED BY <2>5, <2>6, <2>8, <2>9, <2>10 DEF MemoryInv
<1> QED BY <1>2, <1>3 DEF InlineWrite

\* What the copy knows reaches the client, who was told no more before.
LEMMA MemoryPollKeeps ==
    ASSUME IInv, MemoryInv, NEW l \in Logs, MemoryPoll(l)
    PROVE  /\ MemoryInv'
           /\ \A m \in Logs : Progress(seen[m]) <= Progress(seen'[m])
<1>1. /\ seen' = [seen EXCEPT ![l] = Told(l, cached[l])]
      /\ seen \in [Logs -> Statuses \cup {"unpolled"}]
      /\ UNCHANGED <<history, call, pc, reply, tasks, cached, pending, validation>>
  BY DEF MemoryPoll, storage, handlers, pools, memory, IInv, TypeOK
<1>2. \A m \in Logs : Progress(seen[m]) \in 0..3
  <2>1. Progress("unpolled") = 0
    BY DEF Progress, FinalStatuses
  <2> QED BY <1>1, <2>1, ProgressIsNat
<1>3. ASSUME NEW m \in Logs
      PROVE  /\ Progress(seen[m]) <= Progress(seen'[m])
             /\ Progress(seen'[m]) <= Progress(Told(m, cached[m]))
  <2>1. Progress(seen[m]) <= Progress(Told(m, cached[m]))
    BY DEF MemoryInv, CopyShowsProgress
  <2>2. CASE m = l
    <3>1. seen'[m] = Told(m, cached[m])
      BY <1>1, <2>2
    <3>2. Progress(seen'[m]) \in Int
      <4>1. cached[m] # 0 => history[m][cached[m]] \in Docs
        BY DEF MemoryInv, MemoryTypeOK, CopyLags, IInv, TypeOK
      <4>2. Told(m, cached[m]) \in Statuses
        BY <4>1 DEF Told, DefaultStatus, Docs, Statuses
      <4> QED BY <3>1, <4>2, ProgressIsNat
    <3> QED BY <2>1, <3>1, <3>2
  <2>3. CASE m # l
    BY <1>1, <1>2, <2>1, <2>3
  <2> QED BY <2>2, <2>3
<1>4. CopyShowsProgress'
  <2>1. ASSUME NEW m \in Logs PROVE Progress(seen'[m]) <= Progress(Told(m, cached[m]))'
    <3>1. PICK told : told = Told(m, cached[m])
      OBVIOUS
    <3>2. Told(m, cached[m])' = told
      BY <1>1, <3>1 DEF Told, DefaultStatus
    <3>3. Progress(seen'[m]) <= Progress(told)
      BY <1>3, <3>1
    <3> QED BY <3>2, <3>3 DEF Progress, FinalStatuses
  <2> QED BY <2>1 DEF CopyShowsProgress
<1>5. MemoryTypeOK' /\ CopyLags' /\ NeverNotFound' /\ \A s \in Servers : tasks'[s] = <<>>
  BY <1>1 DEF MemoryInv, MemoryTypeOK, CopyLags, NeverNotFound
<1>6. ValidationsAreOwed'
  BY <1>1 DEF MemoryInv, ValidationsAreOwed, Running, NewStatus, Status, LogOf, Latest
<1>7. StatusesMoveForward'
  BY <1>1, ForwardKept DEF MemoryInv
<1> QED BY <1>3, <1>4, <1>5, <1>6, <1>7 DEF MemoryInv

\* The copy catches up with the storage.
LEMMA SyncKeeps ==
    ASSUME IInv, MemoryInv, Sync
    PROVE  MemoryInv'
<1>1. /\ cached' = [l \in Logs |-> Len(history[l])] /\ pending' = FALSE
      /\ UNCHANGED <<history, call, pc, reply, tasks, seen, validation>>
  BY DEF Sync, vars
<1>2. \A l \in Logs : Len(history[l]) \in Nat /\ cached[l] <= Len(history[l])
  <2>1. \A l \in Logs : Len(history[l]) \in Nat
    BY DEF IInv, TypeOK
  <2> QED BY <2>1 DEF MemoryInv, CopyLags
<1>3. StatusesMoveForward'
  BY <1>1, ForwardKept DEF MemoryInv
<1>4. CopyLags' /\ CopyShowsProgress'
  <2>1. /\ history' \in [Logs -> Seq(Docs)] /\ cached' \in [Logs -> Nat]
        /\ \A l \in Logs : cached[l] <= cached'[l] /\ cached'[l] <= Len(history'[l])
        /\ \A l \in Logs : \A i \in 1..Len(history[l]) : history'[l][i] = history[l][i]
    BY <1>1, <1>2 DEF IInv, TypeOK
  <2> QED BY <1>1, <1>3, <2>1, CopyAdvances
<1>5. MemoryTypeOK' /\ NeverNotFound' /\ \A s \in Servers : tasks'[s] = <<>>
  BY <1>1, <1>2 DEF MemoryInv, MemoryTypeOK, NeverNotFound
<1>6. ValidationsAreOwed'
  BY <1>1 DEF MemoryInv, ValidationsAreOwed, Running, NewStatus, Status, LogOf, Latest
<1> QED BY <1>3, <1>4, <1>5, <1>6 DEF MemoryInv

LEMMA MemoryStutter ==
    ASSUME MemoryInv, UNCHANGED <<vars, memory>>
    PROVE  MemoryInv'
<1>1. UNCHANGED <<history, call, pc, reply, tasks, seen, cached, pending, validation>>
  BY DEF vars, memory
<1>2. MemoryTypeOK' /\ CopyLags' /\ NeverNotFound' /\ \A s \in Servers : tasks'[s] = <<>>
  BY <1>1 DEF MemoryInv, MemoryTypeOK, CopyLags, NeverNotFound
<1>3. ValidationsAreOwed'
  BY <1>1 DEF MemoryInv, ValidationsAreOwed, Running, NewStatus, Status, LogOf, Latest
<1>4. StatusesMoveForward'
  BY <1>1, ForwardKept DEF MemoryInv
<1>5. CopyShowsProgress'
  BY <1>1, CopyShownKept DEF MemoryInv
<1> QED BY <1>2, <1>3, <1>4, <1>5 DEF MemoryInv
--------------------------------------------------------------------------------
(* Over either repository *)

LEMMA EitherInitInv == EitherInit => EitherInv
<1> SUFFICES ASSUME EitherInit PROVE EitherInv
  OBVIOUS
<1>1. IInv
  BY InitInv DEF EitherInit
<1>2. /\ \A l \in Logs : /\ history[l] = <<>> /\ Len(history[l]) = 0
                         /\ cached[l] = 0 /\ seen[l] = "unpolled"
      /\ \A r \in Requests : pc[r] = "unsent" /\ reply[r] = 0 /\ validation[r] = NotRunning
      /\ \A s \in Servers : tasks[s] = <<>>
      /\ repository \in Repositories
  BY DEF EitherInit, Init
<1>3. MemoryTypeOK
  BY NotRunningIsTyped DEF EitherInit, MemoryTypeOK
<1>4. CopyLags /\ ValidationsAreOwed /\ StatusesMoveForward /\ NeverNotFound
  BY <1>2, NotRunningIsTyped DEF CopyLags, ValidationsAreOwed, Running, StatusesMoveForward,
                                 NeverNotFound
<1>5. CopyShowsProgress
  <2>1. Progress("unpolled") = 0 /\ Progress("preprocessing") = 1
    BY DEF Progress, FinalStatuses
  <2>2. \A l \in Logs : Told(l, cached[l]) = "preprocessing"
    BY <1>2 DEF Told, DefaultStatus
  <2>3. ASSUME NEW l \in Logs PROVE Progress(seen[l]) <= Progress(Told(l, cached[l]))
    <3>1. Progress(seen[l]) = 0 /\ Progress(Told(l, cached[l])) = 1
      BY <1>2, <2>1, <2>2
    <3> QED BY <3>1
  <2> QED BY <2>3 DEF CopyShowsProgress
<1> QED BY <1>1, <1>2, <1>3, <1>4, <1>5 DEF EitherInv, MemoryInv

\* With MongoDB a step is one of SummaryLogs.
LEMMA MongoStep ==
    ASSUME repository = "mongodb", [EitherNext]_<<vars, memory>>
    PROVE  [Next]_vars /\ repository' = "mongodb"
  BY DEF EitherNext, OnMongo, InMemory, Next, Handle, Work, memory

\* The steps of the service over the in-memory repository.
LEMMA MemoryStepKinds ==
    ASSUME repository = "inmemory", EitherNext
    PROVE  \/ \E r \in Requests :
              \/ Receive(r) /\ UNCHANGED memory
              \/ MemoryFindExisting(r) \/ MemoryWriteUpload(r) \/ MemoryConflict(r)
              \/ StartInline(r) \/ InlineFind(r) \/ InlineCheck(r) \/ InlineWrite(r)
           \/ \E l \in Logs : MemoryPoll(l)
           \/ Sync
  BY DEF EitherNext, OnMongo, InMemory

\* Every step in memory keeps both invariants, is a step of the lifecycle or of
\* none, and tells a client no less than before.
LEMMA MemoryStep ==
    ASSUME IInv, MemoryInv, repository = "inmemory", [EitherNext]_<<vars, memory>>
    PROVE  /\ IInv' /\ MemoryInv' /\ repository' = "inmemory"
           /\ [Lifecycle!Next]_Lifecycle!lifecycle
           /\ \A l \in Logs : Progress(seen[l]) <= Progress(seen'[l])
<1> DEFINE Kept == IInv' /\ MemoryInv' /\ repository' = "inmemory"
           Refines == UNCHANGED history \/ Lifecycle!Next
           Forward == UNCHANGED seen \/ \A l \in Logs : Progress(seen[l]) <= Progress(seen'[l])
<1>1. ASSUME NEW r \in Requests, Receive(r), UNCHANGED memory
      PROVE  Kept /\ Refines /\ Forward
  BY <1>1, ReceiveInv, MemoryReceiveKeeps DEF Receive, storage, memory
<1>2. ASSUME NEW r \in Requests, MemoryFindExisting(r)
      PROVE  Kept /\ Refines /\ Forward
  BY <1>2, MemoryFindExistingInv, MemoryFindExistingKeeps DEF MemoryFindExisting, storage, memory
<1>3. ASSUME NEW r \in Requests, MemoryWriteUpload(r)
      PROVE  Kept /\ Refines /\ Forward
  <2>1. pc[r] = "write" /\ StoreUpload(r) /\ UNCHANGED <<call, seen>> /\ repository' = "inmemory"
    BY <1>3, MemoryWriteUploadWrites DEF WriteUpload, MemoryWriteUpload
  <2>2. Lifecycle!Next
    BY <2>1, UploadRefines
  <2>3. IInv' /\ MemoryInv'
    BY <1>3, MemoryWriteUploadWrites, WriteUploadInv, MemoryWriteUploadKeeps
  <2> QED BY <2>1, <2>2, <2>3
<1>4. ASSUME NEW r \in Requests, MemoryConflict(r)
      PROVE  Kept /\ Refines /\ Forward
  BY <1>4, MemoryConflictInv, MemoryConflictKeeps DEF MemoryConflict, storage, memory
<1>5. ASSUME NEW r \in Requests, StartInline(r)
      PROVE  Kept /\ Refines /\ Forward
  BY <1>5, StartInlineInv, StartInlineKeeps DEF StartInline, storage
<1>6. ASSUME NEW r \in Requests, InlineFind(r)
      PROVE  Kept /\ Refines /\ Forward
  BY <1>6, StutterInv, InlineFindKeeps DEF InlineFind, vars
<1>7. ASSUME NEW r \in Requests, InlineCheck(r)
      PROVE  Kept /\ Refines /\ Forward
  BY <1>7, InlineCheckInv, InlineCheckKeeps DEF InlineCheck, storage
<1>8. ASSUME NEW r \in Requests, InlineWrite(r)
      PROVE  Kept /\ Refines /\ Forward
  <2>1. UNCHANGED <<seen, repository>>
    BY <1>8 DEF InlineWrite
  <2>2. Refines
    <3>1. CASE /\ validation[r].verdict # "unsaveable"
               /\ MemoryUpdate(LogOf(r), InlineChecked(r).version, InlineDoc(r))
      <4>1. validation[r].at = "write"
        BY <1>8 DEF InlineWrite
      <4> QED BY <3>1, <4>1, InlineVerdictCommits, VerdictRefines
    <3> QED BY <1>8, <3>1 DEF InlineWrite
  <2>3. IInv' /\ MemoryInv'
    BY <1>8, InlineWriteInv, InlineWriteKeeps
  <2> QED BY <2>1, <2>2, <2>3
<1>9. ASSUME NEW l \in Logs, MemoryPoll(l)
      PROVE  Kept /\ Refines /\ Forward
  BY <1>9, MemoryPollInv, MemoryPollKeeps DEF MemoryPoll, storage, memory
<1>10. ASSUME Sync
       PROVE  Kept /\ Refines /\ Forward
  BY <1>10, StutterInv, SyncKeeps DEF Sync, vars
<1>11. ASSUME UNCHANGED <<vars, memory>>
       PROVE  Kept /\ Refines /\ Forward
  BY <1>11, StutterInv, MemoryStutter DEF vars, memory
<1> HIDE DEF Kept, Refines, Forward
<1>12. Kept /\ Refines /\ Forward
  BY <1>1, <1>2, <1>3, <1>4, <1>5, <1>6, <1>7, <1>8, <1>9, <1>10, <1>11, MemoryStepKinds
<1>13. [Lifecycle!Next]_Lifecycle!lifecycle
  BY <1>12, QuietRefines DEF Refines
<1>14. \A l \in Logs : Progress(seen[l]) <= Progress(seen'[l])
  <2>1. ASSUME NEW l \in Logs PROVE Progress(seen[l]) \in 0..3
    <3>1. seen[l] \in Statuses \/ seen[l] = "unpolled"
      BY DEF IInv, TypeOK
    <3>2. Progress("unpolled") = 0
      BY DEF Progress, FinalStatuses
    <3> QED BY <3>1, <3>2, ProgressIsNat
  <2> QED BY <1>12, <2>1 DEF Forward
<1> QED BY <1>12, <1>13, <1>14 DEF Kept

LEMMA RepositoryIsKnown ==
    ASSUME EitherInv
    PROVE  repository = "mongodb" \/ repository = "inmemory"
  BY RepositoriesAssumption DEF EitherInv

LEMMA EitherStep ==
    ASSUME EitherInv, [EitherNext]_<<vars, memory>>
    PROVE  EitherInv' /\ [Lifecycle!Next]_Lifecycle!lifecycle /\ UNCHANGED repository
<1>1. CASE repository = "mongodb"
  BY <1>1, MongoStep, NextInv, NextRefines DEF EitherInv
<1>2. CASE repository = "inmemory"
  BY <1>2, MemoryStep DEF EitherInv
<1> QED BY <1>1, <1>2, RepositoryIsKnown

\* Over either repository IInv holds, and in memory a running validation is owed to
\* the log's one acknowledged upload and its copy shows no less than was told.
THEOREM EitherInductiveInvariant == EitherSpec => []EitherInv
<1>1. EitherInv /\ [EitherNext]_<<vars, memory>> => EitherInv'
  BY EitherStep
<1> QED BY <1>1, EitherInitInv, PTL DEF EitherSpec

\* Duplicate callbacks have at most one validation of a log run in the process.
THEOREM InlineValidationsAreAlone == EitherSpec => []OneInlineValidation
<1>1. EitherInv => OneInlineValidation
  BY RunningIsAlone DEF EitherInv, OneInlineValidation
<1> QED BY <1>1, EitherInductiveInvariant, PTL

\* The service implements the lifecycle over either repository.
THEOREM EitherRefinement == EitherSpec => ImplementsLifecycle
<1>1. EitherInit => Lifecycle!Init
  BY InitRefines DEF EitherInit
<1>2. EitherInv /\ [EitherNext]_<<vars, memory>> => [Lifecycle!Next]_Lifecycle!lifecycle
  BY EitherStep
<1> QED
  BY <1>1, <1>2, EitherInductiveInvariant, PTL DEF EitherSpec, ImplementsLifecycle, Lifecycle!Spec
--------------------------------------------------------------------------------
(* Reads from one node, or from the copy in memory *)

\* What is read moves forward: OneNodeInv with MongoDB, CopyShowsProgress in memory.
EitherReadsInv == repository = "mongodb" => OneNodeInv

LEMMA EitherReadsStep ==
    ASSUME OneNode \/ Repositories = {"inmemory"},
           EitherInv, EitherReadsInv, EitherInv', [EitherNext]_<<vars, memory>>
    PROVE  /\ EitherReadsInv'
           /\ \A l \in Logs : Progress(seen[l]) <= Progress(seen'[l])
<1>1. CASE repository = "mongodb"
  <2>1. OneNode
    BY <1>1 DEF EitherInv
  <2> QED BY <1>1, <2>1, MongoStep, OneNodeStep DEF EitherInv, EitherReadsInv
<1>2. CASE repository = "inmemory"
  BY <1>2, MemoryStep DEF EitherInv, EitherReadsInv
<1> QED BY <1>1, <1>2, RepositoryIsKnown

\* Over either repository, with one node to read from if it is MongoDB, update()
\* never answers "not found" and a client never sees a log move back.
THEOREM EitherReadsForward ==
    ASSUME OneNode \/ Repositories = {"inmemory"}
    PROVE  EitherSpec => []NeverNotFound /\ AnswersMoveForward
<1>1. EitherInit => EitherReadsInv
  BY OneNodeInit DEF EitherInit, EitherReadsInv
<1>2. EitherInv /\ EitherReadsInv /\ EitherInv' /\ [EitherNext]_<<vars, memory>> => EitherReadsInv'
  BY EitherReadsStep
<1>3. EitherInv /\ EitherReadsInv /\ EitherInv' /\ [EitherNext]_<<vars, memory>> =>
        [\A l \in Logs : Progress(seen[l]) <= Progress(seen'[l])]_seen
  BY EitherReadsStep
<1>4. EitherInv /\ EitherReadsInv => NeverNotFound
  BY RepositoryIsKnown DEF EitherInv, EitherReadsInv, OneNodeInv, MemoryInv
<1> QED
  BY <1>1, <1>2, <1>3, <1>4, EitherInductiveInvariant, PTL DEF EitherSpec, AnswersMoveForward
================================================================================
