------------------------------ MODULE Applications ------------------------------
(***************************************************************************)
(* The endpoints below /v1/apply.  POST organisation counts the            *)
(* organisations to find the next orgId, stores the application, emails    *)
(* the applicant and the regulator, and answers; POST registration and     *)
(* POST accreditation store what the applicant sends with those numbers.   *)
(***************************************************************************)
EXTENDS DatabaseSetup

CONSTANTS
    Submissions,            \* organisation forms that are submitted
    Applicants,             \* registration and accreditation forms that are submitted
    OrganisationPayloads,   \* what an organisation form may be
    TypedPayloads,          \* what an application form may be that was typed by hand
    AtOnce,                 \* bound: organisation requests in progress together
    MaxPosts                \* bound: how many requests there are, repeated ones included

ASSUME NobodyAssumption ==
    Nobody \notin Submissions \cup Applicants /\ Submissions \cap Applicants = {}
ASSUME PayloadsAssumption ==
    \A payload \in OrganisationPayloads \cup TypedPayloads : IsPayload(payload)
ASSUME BoundsAssumption == AtOnce \in Nat \ {0} /\ MaxPosts \in Nat \ {0}

VARIABLES
    pc,             \* pc[s]: where the request that carries s is
    orgId,          \* orgId[s]: the number it computed
    reference,      \* reference[s]: the _id of its document (its place in the oplog)
    posts,          \* how many requests there were
    emails,         \* the emails that were sent
    application,    \* application[a]: where the request a is, and what its handler got
    status          \* status[a]: what it was answered, 0 before that

request == <<pc, orgId, reference>>
applying == <<application, status>>
vars == <<setupVars, request, posts, emails, applying>>

Templates == {"user", "regulator"}
Email(template, s) == [template |-> template, to |-> s, orgId |-> orgId[s], reference |-> reference[s]]
InProgress == {"posted", "unstorable", "counted", "stored", "userEmailed", "regulatorEmailed"}

\* A request that has a payload: the numbers in it, and whether the validator will have it.
Idle == [at |-> "", orgId |-> 0, reference |-> 0, valid |-> FALSE]

\* One handler and one payload check, made into two endpoints.
ApplicationCollections == {"registration", "accreditation"}
Held == [at : ApplicationCollections, orgId : Nat, reference : Int, valid : BOOLEAN]

Stored == [collection : First(4), orgId : Nat, reference : Int,
           from : Submissions \cup Applicants \cup {Nobody}]

TypeOK ==
    /\ SetupTypeOK
    /\ oplog \in Seq(Stored)
    /\ pc \in [Submissions -> InProgress \cup {"idle", "answered", "refused", "failed"}]
    /\ orgId \in [Submissions -> Nat]
    /\ reference \in [Submissions -> 0 .. Len(oplog)]
    /\ posts \in 0 .. MaxPosts
    /\ emails \subseteq [template : Templates, to : Submissions, orgId : Nat, reference : DOMAIN oplog]
    /\ application \in [Applicants -> Held \cup {Idle}]
    /\ status \in [Applicants -> {0, 201, 400, 422, 500}]

Init ==
    /\ SetupInit
    /\ pc = [s \in Submissions |-> "idle"]
    /\ orgId = [s \in Submissions |-> 0]
    /\ reference = [s \in Submissions |-> 0]
    /\ posts = 0
    /\ emails = {}
    /\ application = [a \in Applicants |-> Idle]
    /\ status = [a \in Applicants |-> 0]

Setup ==
    /\ Replicate \/ \E i \in Instances : SetupStep(i)
    /\ UNCHANGED <<request, posts, emails, applying>>

NewRequest == Serving # {} /\ posts < MaxPosts /\ posts' = posts + 1
--------------------------------------------------------------------------------
(* POST /v1/apply/organisation *)

Move(s, from, to) == pc[s] = from /\ pc' = [pc EXCEPT ![s] = to]

\* Where a form leads: refused, or to the handler, with a document that the validator
\* of the collection refuses or takes.
Outcome(payload) ==
    IF OrganisationPayloadStatus(payload) # 0 THEN "refused"
    ELSE IF OrganisationValid(OrganisationDocument(payload, Start)) THEN "posted" ELSE "unstorable"

Outcomes == {Outcome(payload) : payload \in OrganisationPayloads}

\* A form is submitted, for the first time or again after a failure.
Post(s) ==
    /\ pc[s] \in {"idle", "failed"}
    /\ NewRequest
    /\ Cardinality({t \in Submissions : pc[t] \in InProgress}) < AtOnce
    /\ \E outcome \in Outcomes : pc' = [pc EXCEPT ![s] = outcome]
    /\ UNCHANGED <<setupVars, orgId, reference, emails, applying>>

NextOrgId(count) == Start + count + 1

\* getNextOrgId
CountOrganisations(s) ==
    /\ Move(s, "posted", "counted")
    /\ orgId' = [orgId EXCEPT ![s] = NextOrgId(
            Cardinality({k \in Documents("organisation", Readable) : Readable[k].orgId >= Start}))]
    /\ UNCHANGED <<setupVars, reference, posts, emails, applying>>

Insert(s) ==
    /\ Move(s, "counted", "stored")
    /\ OrgIdValid(orgId[s])
    /\ Write(Inserted("organisation", orgId[s], 0, s))
    /\ reference' = [reference EXCEPT ![s] = Len(oplog) + 1]
    /\ UNCHANGED <<instances, orgId, posts, emails, applying>>

\* Mutant: the emails do not wait for the insert.
SendConfirmationEmailFirst(s, template) ==
    /\ IF template = "user" THEN Move(s, "counted", "userEmailed")
                            ELSE Move(s, "userEmailed", "regulatorEmailed")
    /\ emails' = emails \cup {Email(template, s)}
    /\ UNCHANGED <<setupVars, orgId, reference, posts, applying>>

\* sendEmail, to the user and then to the regulator, with a Notify key configured
\* (without one nothing is sent and the handler goes on as if it had been).
SendConfirmationEmail(s, template) ==
    /\ IF template = "user" THEN Move(s, "stored", "userEmailed")
                            ELSE Move(s, "userEmailed", "regulatorEmailed")
    /\ emails' = emails \cup {Email(template, s)}
    /\ UNCHANGED <<setupVars, orgId, reference, posts, applying>>

Answer(s) ==
    /\ Move(s, "regulatorEmailed", "answered")
    /\ UNCHANGED <<setupVars, orgId, reference, posts, emails, applying>>

\* An await that throws becomes a 500, and so does a crash for the client.  The
\* call that failed may have taken effect: the insert or the email went out and
\* its confirmation was lost.  The insert of a document that the validator refuses
\* always fails (before it is counted for, as well: nothing of that is kept).
Fail(s) ==
    /\ pc[s] \in InProgress
    /\ pc' = [pc EXCEPT ![s] = "failed"]
    /\ UNCHANGED <<setupVars, orgId, reference, posts, emails, applying>>

InsertUnconfirmed(s) ==
    /\ Move(s, "counted", "failed")
    /\ OrgIdValid(orgId[s])
    /\ Write(Inserted("organisation", orgId[s], 0, s))
    /\ UNCHANGED <<instances, orgId, reference, posts, emails, applying>>

EmailUnconfirmed(s) ==
    /\ \/ Move(s, "stored", "failed") /\ emails' = emails \cup {Email("user", s)}
       \/ Move(s, "userEmailed", "failed") /\ emails' = emails \cup {Email("regulator", s)}
    /\ UNCHANGED <<setupVars, orgId, reference, posts, applying>>
--------------------------------------------------------------------------------
(* POST /v1/apply/registration and POST /v1/apply/accreditation *)

\* The form of an applicant who copies the numbers of an email.
CopiedFrom(email) ==
    Payload(TRUE, "known", << Field("Organisation ID", "number", email.orgId),
                              Field("System Reference", "id", email.reference) >>)

\* The answer to a form, 0 when it goes on to the handler, and what the handler would
\* store: nothing when the validator of the collection is going to refuse it.
Checked(collection, payload) ==
    LET document == ApplicationDocument(payload)
        refused == ApplicationPayloadStatus(payload)
        valid == refused = 0 /\ ApplicationValid(collection, document)
    IN  [status |-> refused, valid |-> valid,
         orgId |-> IF valid THEN document.orgId ELSE 0,
         reference |-> IF valid THEN document.referenceNumber.n ELSE 0]

CheckedTyped ==
    [collection \in ApplicationCollections |-> {Checked(collection, payload) : payload \in TypedPayloads}]

PostApplication(a, collection) ==
    /\ application[a] = Idle /\ status[a] = 0
    /\ NewRequest
    /\ \E checked \in CheckedTyped[collection] \cup {Checked(collection, CopiedFrom(e)) : e \in emails} :
        IF checked.status # 0
        THEN status' = [status EXCEPT ![a] = checked.status] /\ UNCHANGED application
        ELSE /\ application' = [application EXCEPT ![a] =
                    [at |-> collection, orgId |-> checked.orgId,
                     reference |-> checked.reference, valid |-> checked.valid]]
             /\ UNCHANGED status
    /\ UNCHANGED <<setupVars, request, emails>>

Store(a) == Write(Inserted(application[a].at, application[a].orgId, application[a].reference, a))

\* Mutant: the insert is not awaited.
InsertApplicationUnawaited(a) ==
    /\ application[a] # Idle
    /\ \/ application[a].valid /\ Store(a)
       \/ UNCHANGED database
    /\ status' = [status EXCEPT ![a] = 201]
    /\ application' = [application EXCEPT ![a] = Idle]
    /\ UNCHANGED <<instances, request, posts, emails>>

\* The insert is refused by the validator, fails, is stored without a confirmation,
\* or succeeds.
InsertApplication(a) ==
    /\ application[a] # Idle
    /\ \/ UNCHANGED database /\ status' = [status EXCEPT ![a] = 500]
       \/ application[a].valid /\ Store(a) /\ status' \in {[status EXCEPT ![a] = code] : code \in {201, 500}}
    /\ application' = [application EXCEPT ![a] = Idle]
    /\ UNCHANGED <<instances, request, posts, emails>>

Next ==
    \/ Setup
    \/ \E s \in Submissions :
        \/ Post(s) \/ CountOrganisations(s) \/ Insert(s) \/ InsertUnconfirmed(s)
        \/ \E template \in Templates : SendConfirmationEmail(s, template)
        \/ EmailUnconfirmed(s) \/ Answer(s) \/ Fail(s)
    \/ \E a \in Applicants :
        \/ \E collection \in ApplicationCollections : PostApplication(a, collection)
        \/ InsertApplication(a)

Spec == Init /\ [][Next]_vars
--------------------------------------------------------------------------------
(* Correctness *)

\* Two organisations never share an orgId (the LLD's "int orgId UK";
\* getNextOrgId against the inserts of other requests and instances).
OrgIdsUnique ==
    \A k, l \in Documents("organisation", oplog) : oplog[k].orgId = oplog[l].orgId => k = l

\* Whatever an email tells its reader is what is stored: the reference is the
\* document of that form and carries the orgId of the email, also after failures
\* and repeated submissions (handler of routes/v1/apply/organisation.js).
EmailsTellWhatIsStored ==
    \A e \in emails :
        e.reference \in DOMAIN oplog /\ oplog[e.reference] = Inserted("organisation", e.orgId, 0, e.to)

\* What a client is told is true.  An applicant who got an answer for an organisation
\* is stored, and both readers of the emails were told of the same document.  A
\* registration or accreditation answered with 201 is stored once, one refused with
\* 400 or 422 is not, and no failure is answered as a success (the handlers of
\* routes/v1/apply and registrationAndAccreditationHandler).
AnswersAreTrue ==
    /\ \A s \in Submissions :
        pc[s] = "answered" =>
            /\ oplog[reference[s]].from = s
            /\ \A template \in Templates : Email(template, s) \in emails
    /\ \A a \in Applicants :
        LET stored == Cardinality({k \in DOMAIN oplog : oplog[k].from = a})
        IN  CASE status[a] = 201 -> stored = 1
              [] status[a] = 500 -> stored <= 1
              [] OTHER -> stored = 0

\* Who copies the numbers of a confirmation email into a registration or an
\* accreditation is not turned away, neither by the payload check nor by the
\* collection's validator, whatever raced or lagged when the numbers were made
\* (getNextOrgId against registrationAndAccreditationPayload and schema-properties.js).
EmailedNumbersAreAccepted ==
    \A e \in emails :
        /\ ApplicationPayloadStatus(CopiedFrom(e)) = 0
        /\ \A collection \in ApplicationCollections :
            ApplicationValid(collection, ApplicationDocument(CopiedFrom(e)))
--------------------------------------------------------------------------------
(* The invariant of the proofs *)

\* What a request has done, by the place where it is.
InOrder(s) ==
    /\ pc[s] \in {"stored", "userEmailed", "regulatorEmailed", "answered"} =>
        /\ reference[s] \in DOMAIN oplog /\ OrgIdValid(orgId[s])
        /\ oplog[reference[s]] = Inserted("organisation", orgId[s], 0, s)
    /\ pc[s] \in {"userEmailed", "regulatorEmailed", "answered"} => Email("user", s) \in emails
    /\ pc[s] \in {"regulatorEmailed", "answered"} => Email("regulator", s) \in emails

RequestsInOrder == \A s \in Submissions : InOrder(s)

\* AnswersAreTrue of an applicant, in terms of places in the oplog.
OnceStored(a) ==
    /\ application[a] # Idle => status[a] = 0
    /\ \A k, l \in DOMAIN oplog : oplog[k].from = a /\ oplog[l].from = a => k = l
    /\ status[a] = 201 => \E k \in DOMAIN oplog : oplog[k].from = a
    /\ status[a] \notin {201, 500} => \A k \in DOMAIN oplog : oplog[k].from # a

EmailedNumbersAreValid == \A e \in emails : OrgIdValid(e.orgId)

IInv ==
    /\ TypeOK
    /\ SetUpInOrder
    /\ RequestsInOrder
    /\ \A a \in Applicants : OnceStored(a)
    /\ EmailsTellWhatIsStored
    /\ EmailedNumbersAreValid
================================================================================
