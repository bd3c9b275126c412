----------------------------- MODULE DatabaseSetup ------------------------------
(***************************************************************************)
(* The start of the instances of the service on one database: the MongoDB  *)
(* plugin creates the collections or updates their validators, creates the *)
(* indexes and seeds what is empty, before the server listens.  Nothing    *)
(* keeps two instances from doing so together, and an instance that fails  *)
(* half-way is replaced by another.                                        *)
(***************************************************************************)
EXTENDS ApplicationForms, FiniteSets

CONSTANTS
    Instances,     \* instances of the service that are started, together or one after the other
    Nobody,        \* the submission of a seeded document
    ReadFrom,      \* "primary", or "secondary" as config.js has it
    MaxLag         \* bound: writes that the secondary may be behind

ASSUME ReadFromAssumption == ReadFrom \in {"primary", "secondary"}
ASSUME SetupBoundsAssumption == MaxLag \in Nat \ {0}

VARIABLES
    collections,  \* the collections that exist, with the current validators
    oplog,        \* the documents that were inserted, in the order of the primary's oplog
    applied,      \* how many of them the secondary has applied
    stage,        \* stage[i]: the step of its start that instance i is about to do
    seeded        \* seeded[i]: the organisation that it inserted as a seed

database == <<oplog, applied>>
instances == <<collections, stage, seeded>>
setupVars == <<collections, oplog, applied, stage, seeded>>

Stages == {"collections", "countOrganisations", "seedOrganisation", "seedRegistration",
           "seedAccreditation", "countEPROrganisations", "seedEPROrganisations", "ready", "failed"}

\* In the order in which createOrUpdateCollections goes through them.
Collections == <<"organisation", "registration", "accreditation", "epr-organisations">>
First(n) == {Collections[k] : k \in 1 .. n}

\* The _id of a document is its place in the oplog, reference that of the one it refers to.
Inserted(c, orgId, reference, from) ==
    [collection |-> c, orgId |-> orgId, reference |-> reference, from |-> from]

Documents(c, log) == {k \in DOMAIN log : log[k].collection = c}

\* What a count or a countDocuments sees.
Readable == IF ReadFrom = "primary" THEN oplog ELSE SubSeq(oplog, 1, applied)

Write(document) == Len(oplog) - applied < MaxLag /\ oplog' = Append(oplog, document) /\ UNCHANGED applied

Replicate ==
    /\ applied < Len(oplog)
    /\ applied' = applied + 1
    /\ UNCHANGED <<oplog, instances>>

Serving == {i \in Instances : stage[i] = "ready"}

SetupInit ==
    /\ collections = {}
    /\ oplog = <<>>
    /\ applied = 0
    /\ stage = [i \in Instances |-> "collections"]
    /\ seeded = [i \in Instances |-> 0]

Goto(i, s) == stage' = [stage EXCEPT ![i] = s]

\* createOrUpdateCollections and createIndexes.  A collection that the list has gets
\* the current validator, one that it does not have is created; when the list is
\* stale that may be an error.  Whatever fails, the collections up to there are set
\* up.  None of the indexes is unique: they change nothing that is modelled.
CreateOrUpdateCollections(i) ==
    /\ stage[i] = "collections"
    /\ \E done \in 0 .. 4 :
        /\ collections' = collections \cup First(done)
        /\ Goto(i, IF done = 4 THEN "countOrganisations" ELSE "failed")
    /\ UNCHANGED <<database, seeded>>

\* Mutant: nothing is seeded once there is an organisation.
CountOrganisationsForSeedOnly(i) ==
    /\ stage[i] = "countOrganisations"
    /\ Goto(i, IF Documents("organisation", Readable) = {} THEN "seedOrganisation" ELSE "ready")
    /\ UNCHANGED <<database, collections, seeded>>

CountOrganisationsForSeed(i) ==
    /\ stage[i] = "countOrganisations"
    /\ Goto(i, IF Documents("organisation", Readable) = {} THEN "seedOrganisation" ELSE "countEPROrganisations")
    /\ UNCHANGED <<database, collections, seeded>>

SeedOrganisation(i) ==
    /\ stage[i] = "seedOrganisation"
    /\ Write(Inserted("organisation", Start, 0, Nobody))
    /\ seeded' = [seeded EXCEPT ![i] = Len(oplog) + 1]
    /\ Goto(i, "seedRegistration")
    /\ UNCHANGED collections

\* The seeds of registrations and accreditations refer to the seeded organisation.
SeedRegistration(i) ==
    /\ stage[i] = "seedRegistration"
    /\ Write(Inserted("registration", Start, seeded[i], Nobody))
    /\ Goto(i, "seedAccreditation")
    /\ UNCHANGED <<collections, seeded>>

SeedAccreditation(i) ==
    /\ stage[i] = "seedAccreditation"
    /\ Write(Inserted("accreditation", Start, seeded[i], Nobody))
    /\ Goto(i, "countEPROrganisations")
    /\ seeded' = [seeded EXCEPT ![i] = 0]
    /\ UNCHANGED collections

CountEPROrganisations(i) ==
    /\ stage[i] = "countEPROrganisations"
    /\ Goto(i, IF Documents("epr-organisations", Readable) = {} THEN "seedEPROrganisations" ELSE "ready")
    /\ UNCHANGED <<database, collections, seeded>>

\* The sample organisations have fixed _ids: a second insert of them is refused.
SeedEPROrganisations(i) ==
    /\ stage[i] = "seedEPROrganisations"
    /\ IF Documents("epr-organisations", oplog) = {}
       THEN Write(Inserted("epr-organisations", 0, 0, Nobody)) /\ Goto(i, "ready")
       ELSE UNCHANGED database /\ Goto(i, "failed")
    /\ UNCHANGED <<collections, seeded>>

\* An await that throws rejects the registration of the plugin: startServer ends
\* and with it the process.  So does a crash.  (Of a serving instance only its
\* requests matter, which fail; whatever is started in its place starts like any other.)
StartFails(i) ==
    /\ stage[i] \notin {"ready", "failed"}
    /\ Goto(i, "failed")
    /\ seeded' = [seeded EXCEPT ![i] = 0]
    /\ UNCHANGED <<database, collections>>

SetupStep(i) ==
    \/ CreateOrUpdateCollections(i)
    \/ CountOrganisationsForSeed(i) \/ SeedOrganisation(i)
    \/ SeedRegistration(i) \/ SeedAccreditation(i)
    \/ CountEPROrganisations(i) \/ SeedEPROrganisations(i)
    \/ StartFails(i)

SetupTypeOK ==
    /\ collections \subseteq First(4)
    /\ applied \in 0 .. Len(oplog)
    /\ Len(oplog) - applied <= MaxLag
    /\ stage \in [Instances -> Stages]
    /\ seeded \in [Instances -> 0 .. Len(oplog)]

\* However instances start together, fail and start again: when one of them serves,
\* every collection exists, there is an organisation, and the sample organisations
\* are there exactly once (mongoDbPlugin.register awaits createOrUpdateCollections,
\* createIndexes and createSeedData before the server listens).
ServesASetUpDatabase ==
    Serving # {} =>
        /\ collections = First(4)
        /\ Documents("organisation", oplog) # {}
        /\ Cardinality(Documents("epr-organisations", oplog)) = 1
--------------------------------------------------------------------------------
(* The invariant of the proofs *)

\* What is there by the step of its start that an instance is about to do.
StartInOrder(i) ==
    /\ stage[i] \notin {"collections", "failed"} => collections = First(4)
    /\ stage[i] \in {"seedRegistration", "seedAccreditation", "countEPROrganisations",
                    "seedEPROrganisations", "ready"} => Documents("organisation", oplog) # {}
    /\ stage[i] = "ready" => Documents("epr-organisations", oplog) # {}

\* A sample organisation is only inserted when there is none.
SetUpInOrder ==
    /\ \A i \in Instances : StartInOrder(i)
    /\ \A k, l \in Documents("epr-organisations", oplog) : k = l
================================================================================
