------------------------- MODULE InMemoryOrganisations --------------------------
(***************************************************************************)
(* The in-memory implementation of the organisations repository, beside    *)
(* the MongoDB one of Organisations: the same PUTs and migrations run over *)
(* either.  Its methods never wait between a check and the write after it. *)
(* What lags is the copy that the reads are answered from: it is brought   *)
(* up to date by a callback of setImmediate.                               *)
(***************************************************************************)
EXTENDS Organisations

CONSTANT Repositories   \* which implementations an instance looks at

ASSUME RepositoriesAssumption == Repositories \subseteq {"mongodb", "inmemory"}

VARIABLES
    repository,  \* the implementation that the service was given
    cached,      \* cached[o]: the state of document o in staleCache
    pending      \* whether a callback that syncs the copy is scheduled

memory == <<repository, cached, pending>>

EitherInit ==
    /\ Init
    /\ repository \in Repositories
    /\ cached = [o \in Orgs |-> 0]
    /\ pending = FALSE
--------------------------------------------------------------------------------
(* Storage and its copy; history[o] holds what storage[o] was *)

\* storage is pushed to, and the copy as well: an insert shows at once.
MemoryInsert(o) ==
    /\ Commit(o, InsertedDoc)
    /\ cached' = [cached EXCEPT ![o] = 1]
    /\ UNCHANGED pending

\* Mutant: a callback that is already scheduled is cancelled, and none replaces it.
MemoryUpdateCancelsSync(o, part, writer, status) ==
    /\ Commit(o, Merged(Latest(o), part, writer, status))
    /\ pending' = ~pending
    /\ UNCHANGED cached

\* A callback that is already scheduled is cancelled for a new one.
MemoryUpdate(o, part, writer, status) ==
    /\ Commit(o, Merged(Latest(o), part, writer, status))
    /\ pending' = TRUE
    /\ UNCHANGED cached

Sync ==
    /\ pending
    /\ cached' = [o \in Orgs |-> Len(history[o])]
    /\ pending' = FALSE
    /\ UNCHANGED <<storage, puts, migration, faults, repository>>
--------------------------------------------------------------------------------
(* GET and PUT *)

MemoryGetById(e) ==
    /\ pc[e] = "get"
    /\ cached[OrgOf(e)] > 0
    /\ known' = [known EXCEPT ![e] = history[OrgOf(e)][cached[OrgOf(e)]].version]
    /\ pc' = [pc EXCEPT ![e] = "find"]
    /\ UNCHANGED <<storage, edit, base, tries, reply, shown, written, migration, faults, memory>>

\* update() checks, merges and stores in one go.
MemoryPut(e) ==
    /\ pc[e] = "find"
    /\ IF history[OrgOf(e)] = <<>>
       THEN Answer(e, 404) /\ UNCHANGED <<history, written, cached, pending>>
       ELSE IF ~VersionMatches(OrgOf(e), known[e])
       THEN Answer(e, 409) /\ UNCHANGED <<history, written, cached, pending>>
       ELSE /\ MemoryUpdate(OrgOf(e), edit[e].part, e, edit[e].status)
            /\ written' = [written EXCEPT ![e] = Len(history[OrgOf(e)]) + 1]
            /\ pc' = [pc EXCEPT ![e] = "confirm"]
            /\ UNCHANGED reply
    /\ UNCHANGED <<applied, edit, known, base, tries, shown, migration, faults, repository>>

\* findById(id, version + 1).  Between two tries a timer of some milliseconds passes,
\* and the event loop runs what setImmediate scheduled before it gets to a timer.
MemoryConfirm(e) ==
    LET o == OrgOf(e)
    IN  /\ pc[e] = "confirm"
        /\ tries[e] > 0 => ~pending
        /\ IF RecentEnough(o, cached[o], known[e] + 1)
           THEN shown' = [shown EXCEPT ![e] = cached[o]] /\ Answer(e, 200) /\ UNCHANGED tries
           ELSE /\ UNCHANGED shown
                /\ tries' = [tries EXCEPT ![e] = @ + 1]
                /\ IF tries[e] + 1 < MaxRetries THEN UNCHANGED <<pc, reply>>
                   ELSE Answer(e, IF cached[o] = 0 THEN 404 ELSE 500)
        /\ UNCHANGED <<storage, edit, known, base, written, migration, faults, memory>>
--------------------------------------------------------------------------------
(* The migration *)

\* upsert(): it finds, compares and stores in one go.
MemoryUpsert(s, o) ==
    /\ Upserting(s, o, "find")
    /\ IF history[o] = <<>> THEN MemoryInsert(o) /\ Ends(s, o, "inserted")
       ELSE IF ~HasChanges(Latest(o))
       THEN Ends(s, o, "unchanged") /\ UNCHANGED <<history, cached, pending>>
       ELSE MemoryUpdate(o, Top, Form, "none") /\ Ends(s, o, "updated")
    /\ UNCHANGED <<applied, puts, phase, lock, faults, repository>>

\* With MongoDB a step is one of Organisations, and there is no copy.
OnMongo(A) == repository = "mongodb" /\ A /\ UNCHANGED memory
InMemory(A) == repository = "inmemory" /\ A

\* What start-up does around its upserts is the same over either.
Around(s) == Lock(s) \/ ListSubmissions(s) \/ UpsertsEnd(s) \/ Free(s)

EitherNext ==
    \/ \E e \in Editors :
        \/ OnMongo(GetById(e)) \/ OnMongo(UpdateFind(e)) \/ OnMongo(UpdateWrite(e))
        \/ OnMongo(Confirm(e)) \/ OnMongo(PutDatabaseError(e))
        \/ InMemory(MemoryGetById(e)) \/ InMemory(MemoryPut(e)) \/ InMemory(MemoryConfirm(e))
    \/ \E s \in Servers :
        \/ OnMongo(Lock(s)) \/ OnMongo(ListSubmissions(s)) \/ OnMongo(UpsertsEnd(s)) \/ OnMongo(Free(s))
        \/ OnMongo(ListDatabaseError(s)) \/ OnMongo(Crash(s)) \/ OnMongo(Restart(s))
        \/ OnMongo(ReleaseAbandoned(s)) \/ InMemory(Around(s) /\ UNCHANGED memory)
    \/ \E s \in Servers, o \in Orgs :
        \/ OnMongo(UpsertFind(s, o)) \/ OnMongo(UpsertInsert(s, o)) \/ OnMongo(UpsertReread(s, o))
        \/ OnMongo(UpsertWrite(s, o)) \/ OnMongo(UpsertDatabaseError(s, o))
        \/ InMemory(MemoryUpsert(s, o))
    \/ \E d \in Secondaries, o \in Orgs : OnMongo(Replicate(d, o))
    \/ InMemory(Sync)

EitherSpec == EitherInit /\ [][EitherNext]_<<vars, memory>>

\* In memory as with MongoDB, the event loop runs what it started.
MemoryFairness ==
    /\ \A e \in Editors : WF_<<vars, memory>>(MemoryPut(e) \/ MemoryConfirm(e))
    /\ \A s \in Servers : WF_<<vars, memory>>(Around(s) /\ UNCHANGED memory)
    /\ \A s \in Servers, o \in Orgs : WF_<<vars, memory>>(MemoryUpsert(s, o))
    /\ WF_<<vars, memory>>(Sync)

EitherFairSpec ==
    /\ EitherSpec
    /\ repository = "mongodb" => Fairness
    /\ repository = "inmemory" => MemoryFairness
--------------------------------------------------------------------------------
(* Correctness, beside the properties of Organisations *)

\* A PUT over the in-memory repository whose update was stored is answered with a
\* document that has it: the retries outlast the lag, however the PUTs and the
\* migration reschedule the sync (performFindByIdWithRetry, scheduleStaleCacheSync).
StoredPutsAreConfirmed ==
    repository = "inmemory" =>
        \A e \in Editors :
            written[e] > 0 => reply[e] \in {0, 200} /\ (reply[e] = 200 => shown[e] >= written[e])
--------------------------------------------------------------------------------
(* The invariant of the proofs *)

\* Without a scheduled callback the copy is up to date.
CopyLags ==
    /\ cached \in [Orgs -> Nat] /\ pending \in BOOLEAN
    /\ \A o \in Orgs : cached[o] <= Len(history[o])
    /\ ~pending => \A o \in Orgs : cached[o] = Len(history[o])

\* A check and its write are one step, so no state shows one without the other.
NothingIsHalfDone ==
    /\ \A e \in Editors : pc[e] # "write"
    /\ \A s \in Servers, o \in Orgs : upsert[s][o].at \notin {"insert", "reread", "write"}

MemoryInv ==
    /\ TypeOK
    /\ CopyLags
    /\ NothingIsHalfDone
    /\ PutsInOrder
    /\ OneMigrationAtATime
    /\ VersionsArePlaces
    /\ StatusHistoryOnlyGrows
    /\ StoredEditsStay
    /\ MaxRetries > 1 => StoredPutsAreConfirmed

EitherInv ==
    /\ repository \in Repositories
    /\ IF repository = "inmemory" THEN MemoryInv ELSE IInv
================================================================================
