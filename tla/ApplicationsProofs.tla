--------------------------- MODULE ApplicationsProofs ---------------------------
(***************************************************************************)
(* Proofs about Applications and the DatabaseSetup below it, for any       *)
(* number of instances, forms and applicants: what emails and answers say  *)
(* is what is stored, and who serves serves a database that is set up.     *)
(***************************************************************************)
EXTENDS Applications, LeastNumber, FiniteSetTheorems, SequenceTheorems, TLAPS
--------------------------------------------------------------------------------
(* The oplog *)

LEMMA FourCollections ==
    First(4) = {"organisation", "registration", "accreditation", "epr-organisations"}
<1>1. 1 .. 4 = {1, 2, 3, 4}
  OBVIOUS
<1> QED BY <1>1 DEF First, Collections

LEMMA FirstAreSome == ASSUME NEW n \in 0 .. 4 PROVE First(n) \subseteq First(4)
  BY DEF First

\* Documents are added at the end and stay where they are.
LEMMA OplogGrows ==
    ASSUME oplog \in Seq(Stored), NEW d \in Stored, oplog' = Append(oplog, d)
    PROVE  /\ oplog' \in Seq(Stored) /\ Len(oplog') = Len(oplog) + 1 /\ Len(oplog) \in Nat
           /\ DOMAIN oplog = 1 .. Len(oplog) /\ DOMAIN oplog' = 1 .. (Len(oplog) + 1)
           /\ \A k \in DOMAIN oplog : k \in DOMAIN oplog' /\ oplog'[k] = oplog[k]
           /\ Len(oplog) + 1 \in DOMAIN oplog' /\ oplog'[Len(oplog) + 1] = d
           /\ \A k \in DOMAIN oplog' : k \in DOMAIN oplog \/ k = Len(oplog) + 1
<1>1. Len(oplog) \in Nat /\ DOMAIN oplog = 1 .. Len(oplog)
  OBVIOUS
<1>2. /\ oplog' \in Seq(Stored) /\ Len(oplog') = Len(oplog) + 1
      /\ \A k \in 1 .. Len(oplog) : oplog'[k] = oplog[k]
      /\ oplog'[Len(oplog) + 1] = d
  BY AppendProperties
<1>3. DOMAIN oplog' = 1 .. (Len(oplog) + 1)
  BY <1>1, <1>2
<1> QED BY <1>1, <1>2, <1>3

\* What a count sees of the oplog.
LEMMA ReadableIsPrefix ==
    ASSUME oplog \in Seq(Stored), applied \in 0 .. Len(oplog)
    PROVE  /\ Readable \in Seq(Stored) /\ DOMAIN Readable \subseteq DOMAIN oplog
           /\ \A k \in DOMAIN Readable : Readable[k] = oplog[k]
<1>1. Len(oplog) \in Nat /\ DOMAIN oplog = 1 .. Len(oplog)
  OBVIOUS
<1>2. CASE ReadFrom = "primary"
  BY <1>2 DEF Readable
<1>3. CASE ReadFrom # "primary"
  <2> DEFINE log == SubSeq(oplog, 1, applied)
  <2>1. \A k \in 1 .. applied : oplog[k] \in Stored
    BY <1>1
  <2>2. log \in Seq(Stored) /\ Len(log) = applied /\ \A k \in 1 .. applied : log[k] = oplog[k]
    BY <1>1, <2>1, SubSeqProperties
  <2>3. DOMAIN log = 1 .. applied
    BY <2>2
  <2>4. Readable = log
    BY <1>3 DEF Readable
  <2> QED BY <1>1, <2>2, <2>3, <2>4
<1> QED BY <1>2, <1>3

LEMMA CountedAreStored ==
    ASSUME oplog \in Seq(Stored), applied \in 0 .. Len(oplog), NEW c,
           Documents(c, Readable) # {}
    PROVE  Documents(c, oplog) # {}
  BY ReadableIsPrefix DEF Documents
--------------------------------------------------------------------------------
(* Types *)

\* With a document more, everything that is typed by the length of the oplog stays.
LEMMA WriteFacts ==
    ASSUME TypeOK, NEW d \in Stored, Write(d)
    PROVE  /\ oplog' = Append(oplog, d) /\ oplog' \in Seq(Stored) /\ applied' = applied
           /\ applied' \in 0 .. Len(oplog') /\ Len(oplog') - applied' <= MaxLag
           /\ seeded \in [Instances -> 0 .. Len(oplog')]
           /\ reference \in [Submissions -> 0 .. Len(oplog')]
           /\ emails \subseteq [template : Templates, to : Submissions, orgId : Nat, reference : DOMAIN oplog']
           /\ Len(oplog) + 1 \in 0 .. Len(oplog') /\ Len(oplog) + 1 \in DOMAIN oplog'
<1>1. /\ oplog \in Seq(Stored) /\ applied \in 0 .. Len(oplog) /\ applied' = applied
      /\ oplog' = Append(oplog, d) /\ Len(oplog) - applied < MaxLag
      /\ seeded \in [Instances -> 0 .. Len(oplog)]
      /\ reference \in [Submissions -> 0 .. Len(oplog)]
      /\ emails \subseteq [template : Templates, to : Submissions, orgId : Nat, reference : DOMAIN oplog]
  BY DEF TypeOK, SetupTypeOK, Write
<1>2. /\ oplog' \in Seq(Stored) /\ Len(oplog') = Len(oplog) + 1 /\ Len(oplog) \in Nat
      /\ \A k \in DOMAIN oplog : k \in DOMAIN oplog'
      /\ Len(oplog) + 1 \in DOMAIN oplog'
  BY <1>1, OplogGrows
<1>3. applied' \in 0 .. Len(oplog') /\ Len(oplog') - applied' <= MaxLag
  BY <1>1, <1>2, SetupBoundsAssumption
<1>4. 0 .. Len(oplog) \subseteq 0 .. Len(oplog') /\ Len(oplog) + 1 \in 0 .. Len(oplog')
  BY <1>2
<1>5. seeded \in [Instances -> 0 .. Len(oplog')] /\ reference \in [Submissions -> 0 .. Len(oplog')]
  BY <1>1, <1>4
<1>6. emails \subseteq [template : Templates, to : Submissions, orgId : Nat, reference : DOMAIN oplog']
  BY <1>1, <1>2
<1> QED BY <1>1, <1>2, <1>3, <1>4, <1>5, <1>6

LEMMA ApplicationInsertedIsStored ==
    ASSUME NEW c \in {"registration", "accreditation"}, NEW n \in Nat, NEW to \in Int,
           NEW from \in Applicants \cup {Nobody}
    PROVE  Inserted(c, n, to, from) \in Stored
  BY FourCollections DEF Inserted, Stored

LEMMA OrganisationInsertedIsStored ==
    ASSUME NEW n \in Nat, NEW from \in Submissions \cup {Nobody}
    PROVE  Inserted("organisation", n, 0, from) \in Stored
  BY FourCollections DEF Inserted, Stored

LEMMA SampleInsertedIsStored == Inserted("epr-organisations", 0, 0, Nobody) \in Stored
  BY FourCollections DEF Inserted, Stored

\* A count is a number.
LEMMA CountIsNat ==
    ASSUME oplog \in Seq(Stored), applied \in 0 .. Len(oplog)
    PROVE  NextOrgId(Cardinality({k \in Documents("organisation", Readable) : Readable[k].orgId >= Start})) \in Nat
<1> DEFINE S == {k \in Documents("organisation", Readable) : Readable[k].orgId >= Start}
<1>1. Len(oplog) \in Nat /\ S \in SUBSET (1 .. Len(oplog))
  BY ReadableIsPrefix DEF Documents
<1>2. IsFiniteSet(1 .. Len(oplog))
  BY <1>1, FS_Interval
<1> HIDE DEF S
<1>3. Cardinality(S) \in Nat
  BY <1>1, <1>2, FS_Subset, FS_CardinalityType
<1> QED BY <1>3, StartAssumption DEF NextOrgId, S
--------------------------------------------------------------------------------
(* Forms *)

\* An answer that is found is a field.
LEMMA FirstAnswerIsField ==
    ASSUME NEW payload, IsPayload(payload), NEW label
    PROVE  FirstAnswer(ExtractAnswers(payload), label) \in Fields
<1> DEFINE answers == ExtractAnswers(payload)
           at == {k \in DOMAIN answers : answers[k].label = label}
<1>1. payload.fields \in Seq(Fields) /\ Absent \in Fields
  <2>1. Absent \in Fields
    BY DEF Absent, Fields, Labels, Kinds, Strings, Field
  <2> QED BY <2>1 DEF IsPayload
<1>2. /\ DOMAIN answers \subseteq DOMAIN payload.fields
      /\ \A k \in DOMAIN answers : answers[k] = payload.fields[k]
  BY DEF ExtractAnswers
<1> HIDE DEF answers
<1>3. DOMAIN answers \subseteq Nat /\ \A k \in DOMAIN answers : answers[k] \in Fields
  BY <1>1, <1>2
<1>4. CASE at = {}
  BY <1>1, <1>4 DEF FirstAnswer, answers
<1>5. CASE at # {}
  <2>1. at \in SUBSET Nat
    BY <1>3
  <2> HIDE DEF at
  <2>2. \E k \in at : \A l \in at : k <= l
    BY <1>5, <2>1, LeastOf
  <2>3. (CHOOSE k \in at : \A l \in at : k <= l) \in at
    BY <2>2
  <2>4. answers[CHOOSE k \in at : \A l \in at : k <= l] \in Fields
    BY <1>3, <2>3 DEF at
  <2> QED BY <1>5, <2>4 DEF FirstAnswer, at, answers
<1> QED BY <1>4, <1>5

\* What the handler gets out of a form.
LEMMA CheckedIsTyped ==
    ASSUME NEW payload, IsPayload(payload), NEW collection, NEW checked,
           checked = Checked(collection, payload)
    PROVE  /\ checked.status \in {0, 400, 422} /\ checked.valid \in BOOLEAN
           /\ checked.orgId \in Nat /\ checked.reference \in Int
<1> DEFINE document == ApplicationDocument(payload)
           refused == ApplicationPayloadStatus(payload)
           valid == refused = 0 /\ ApplicationValid(collection, document)
<1>1. checked = [status |-> refused, valid |-> valid,
                 orgId |-> IF valid THEN document.orgId ELSE 0,
                 reference |-> IF valid THEN document.referenceNumber.n ELSE 0]
  BY DEF Checked
<1>2. refused \in {0, 400, 422}
  BY DEF ApplicationPayloadStatus, IsPayload
<1>3. document.referenceNumber.n \in Int
  BY FirstAnswerIsField DEF ApplicationDocument, ExtractReferenceNumber, Fields
<1>4. valid => document.orgId \in Nat
  BY StartAssumption DEF ApplicationValid, RegistrationValid, AccreditationValid, OrgIdValid
<1>5. valid \in BOOLEAN
  OBVIOUS
<1> HIDE DEF document, refused, valid
<1> QED BY <1>1, <1>2, <1>3, <1>4, <1>5

LEMMA CopiedIsPayload ==
    ASSUME NEW email, email.orgId \in Nat, email.reference \in Nat
    PROVE  IsPayload(CopiedFrom(email))
<1> DEFINE f == Field("Organisation ID", "number", email.orgId)
           g == Field("System Reference", "id", email.reference)
<1>1. f \in Fields /\ g \in Fields
  BY DEF Field, Fields, Labels, Kinds, Strings
<1> HIDE DEF f, g
<1>2. <<f, g>> \in Seq(Fields)
  BY <1>1
<1> QED BY <1>2 DEF CopiedFrom, Payload, IsPayload, Regulators, f, g

\* The numbers of an email pass the payload check and the validators.
LEMMA CopiedIsAccepted ==
    ASSUME NEW email, OrgIdValid(email.orgId), NEW collection
    PROVE  /\ ApplicationPayloadStatus(CopiedFrom(email)) = 0
           /\ ApplicationValid(collection, ApplicationDocument(CopiedFrom(email)))
<1>1. PICK f : f = Field("Organisation ID", "number", email.orgId)
  OBVIOUS
<1>2. PICK g : g = Field("System Reference", "id", email.reference)
  OBVIOUS
<1>3. /\ f.label = "Organisation ID" /\ f.kind = "number" /\ f.n = email.orgId
      /\ g.label = "System Reference" /\ g.kind = "id"
  BY <1>1, <1>2 DEF Field
<1>4. PICK fields : fields = <<f, g>>
  OBVIOUS
<1>5. DOMAIN fields = {1, 2} /\ fields[1] = f /\ fields[2] = g
  <2>1. Len(fields) = 2 /\ fields[1] = f /\ fields[2] = g /\ DOMAIN fields = 1 .. 2
    BY <1>4
  <2>2. 1 .. 2 = {1, 2}
    OBVIOUS
  <2> QED BY <2>1, <2>2
<1>6. PICK payload : payload = CopiedFrom(email)
  OBVIOUS
<1>7. payload.object = TRUE /\ payload.regulator = "known" /\ payload.fields = fields
  BY <1>1, <1>2, <1>4, <1>6 DEF CopiedFrom, Payload
<1>8. PICK answers : answers = ExtractAnswers(payload)
  OBVIOUS
<1>9. DOMAIN answers = {1, 2} /\ answers[1] = f /\ answers[2] = g
  <2>1. answers = [k \in {k \in DOMAIN fields : fields[k].kind # "absent"} |-> fields[k]]
    BY <1>7, <1>8 DEF ExtractAnswers
  <2>2. {k \in DOMAIN fields : fields[k].kind # "absent"} = {1, 2}
    BY <1>3, <1>5
  <2> QED BY <1>5, <2>1, <2>2
<1>10. FirstAnswer(answers, "Organisation ID") = f
  <2>1. {k \in DOMAIN answers : answers[k].label = "Organisation ID"} = {1}
    BY <1>3, <1>9
  <2>2. (CHOOSE k \in {1} : \A l \in {1} : k <= l) = 1
    OBVIOUS
  <2> QED BY <1>9, <2>1, <2>2 DEF FirstAnswer
<1>11. FirstAnswer(answers, "System Reference") = g
  <2>1. {k \in DOMAIN answers : answers[k].label = "System Reference"} = {2}
    BY <1>3, <1>9
  <2>2. (CHOOSE k \in {2} : \A l \in {2} : k <= l) = 2
    OBVIOUS
  <2> QED BY <1>9, <2>1, <2>2 DEF FirstAnswer
<1>12. ExtractOrgId(answers) = email.orgId /\ ExtractReferenceNumber(answers) = g
  BY <1>3, <1>10, <1>11 DEF ExtractOrgId, ExtractReferenceNumber
<1>13. AnswersValid(answers)
  BY <1>3, <1>9 DEF AnswersValid, Strings
<1>14. ApplicationPayloadStatus(payload) = 0
  <2>1. ~(email.orgId < Start)
    BY StartAssumption DEF OrgIdValid
  <2>2. Truthy(g)
    BY <1>3 DEF Truthy
  <2> QED BY <1>7, <1>8, <1>12, <2>1, <2>2 DEF ApplicationPayloadStatus
<1>15. PICK document : document = ApplicationDocument(payload)
  OBVIOUS
<1>16. document.orgId = email.orgId /\ document.referenceNumber = g /\ document.answers = answers
  BY <1>8, <1>12, <1>15 DEF ApplicationDocument
<1>17. RegistrationValid(document) /\ AccreditationValid(document)
  BY <1>3, <1>13, <1>16 DEF RegistrationValid, AccreditationValid, ReferenceNumberValid
<1> QED BY <1>6, <1>14, <1>15, <1>17 DEF ApplicationValid
--------------------------------------------------------------------------------
(* The steps keep the types *)

LEMMA SetupKeepsTypes == ASSUME TypeOK, Setup PROVE TypeOK'
<1>1. CASE Replicate
  BY <1>1, SetupBoundsAssumption DEF Setup, Replicate, TypeOK, SetupTypeOK, instances, request, applying
<1>2. SUFFICES ASSUME NEW i \in Instances, SetupStep(i) PROVE TypeOK'
  BY <1>1 DEF Setup
<1>3. UNCHANGED <<request, posts, emails, applying>>
  BY DEF Setup
<1>4. seeded[i] \in Int
  BY DEF TypeOK, SetupTypeOK
<1>5. CASE CreateOrUpdateCollections(i)
  BY <1>3, <1>5, FirstAreSome
     DEF CreateOrUpdateCollections, Goto, Stages, TypeOK, SetupTypeOK, database, request, applying
<1>6. CASE CountOrganisationsForSeed(i)
  BY <1>3, <1>6 DEF CountOrganisationsForSeed, Goto, Stages, TypeOK, SetupTypeOK, database, request, applying
<1>7. CASE SeedOrganisation(i)
  <2>1. Inserted("organisation", Start, 0, Nobody) \in Stored
    BY OrganisationInsertedIsStored, StartAssumption
  <2> QED BY <1>3, <1>7, <2>1, WriteFacts
          DEF SeedOrganisation, Goto, Stages, TypeOK, SetupTypeOK, request, applying
<1>8. CASE SeedRegistration(i)
  <2>1. Inserted("registration", Start, seeded[i], Nobody) \in Stored
    BY <1>4, ApplicationInsertedIsStored, StartAssumption
  <2> QED BY <1>3, <1>8, <2>1, WriteFacts
          DEF SeedRegistration, Goto, Stages, TypeOK, SetupTypeOK, request, applying
<1>9. CASE SeedAccreditation(i)
  <2>1. Inserted("accreditation", Start, seeded[i], Nobody) \in Stored
    BY <1>4, ApplicationInsertedIsStored, StartAssumption
  <2>2. 0 \in 0 .. Len(oplog')
    BY <1>9, <2>1, WriteFacts DEF SeedAccreditation
  <2> QED BY <1>3, <1>9, <2>1, <2>2, WriteFacts
          DEF SeedAccreditation, Goto, Stages, TypeOK, SetupTypeOK, request, applying
<1>10. CASE CountEPROrganisations(i)
  BY <1>3, <1>10 DEF CountEPROrganisations, Goto, Stages, TypeOK, SetupTypeOK, database, request, applying
<1>11. CASE SeedEPROrganisations(i)
  <2>1. PICK to \in {"ready", "failed"} : Goto(i, to)
    BY <1>11 DEF SeedEPROrganisations
  <2>2. stage' \in [Instances -> Stages] /\ collections' = collections /\ seeded' = seeded
    BY <1>11, <2>1 DEF SeedEPROrganisations, Goto, Stages, TypeOK, SetupTypeOK
  <2>3. CASE UNCHANGED database
    BY <1>3, <2>2, <2>3 DEF TypeOK, SetupTypeOK, database, request, applying
  <2>4. CASE Write(Inserted("epr-organisations", 0, 0, Nobody))
    <3>1. Inserted("epr-organisations", 0, 0, Nobody) \in Stored
      BY SampleInsertedIsStored
    <3> QED BY <1>3, <2>2, <2>4, <3>1, WriteFacts DEF TypeOK, SetupTypeOK, request, applying
  <2> QED BY <1>11, <2>3, <2>4 DEF SeedEPROrganisations
<1>12. CASE StartFails(i)
  BY <1>3, <1>12 DEF StartFails, Goto, Stages, TypeOK, SetupTypeOK, database, request, applying
<1> QED BY <1>2, <1>5, <1>6, <1>7, <1>8, <1>9, <1>10, <1>11, <1>12 DEF SetupStep

\* What is set up is typed by itself.
LEMMA SetupUntouched ==
    ASSUME TypeOK, UNCHANGED setupVars
    PROVE  /\ SetupTypeOK' /\ oplog' = oplog /\ oplog' \in Seq(Stored)
           /\ reference \in [Submissions -> 0 .. Len(oplog')]
           /\ emails \subseteq [template : Templates, to : Submissions, orgId : Nat, reference : DOMAIN oplog']
  BY DEF TypeOK, SetupTypeOK, setupVars

LEMMA EmailIsTyped ==
    ASSUME TypeOK, RequestsInOrder, NEW s \in Submissions, NEW template \in Templates,
           pc[s] \in {"stored", "userEmailed"}
    PROVE  Email(template, s) \in [template : Templates, to : Submissions, orgId : Nat, reference : DOMAIN oplog]
<1>1. reference[s] \in DOMAIN oplog
  BY DEF RequestsInOrder, InOrder
<1>2. orgId[s] \in Nat
  BY DEF TypeOK
<1> QED BY <1>1, <1>2 DEF Email

LEMMA OrganisationIsStored ==
    ASSUME TypeOK, NEW s \in Submissions
    PROVE  Inserted("organisation", orgId[s], 0, s) \in Stored
  BY OrganisationInsertedIsStored DEF TypeOK

LEMMA RequestKeepsTypes ==
    ASSUME TypeOK, RequestsInOrder, NEW s \in Submissions,
           \/ Post(s) \/ CountOrganisations(s) \/ Insert(s) \/ InsertUnconfirmed(s)
           \/ \E template \in Templates : SendConfirmationEmail(s, template)
           \/ EmailUnconfirmed(s) \/ Answer(s) \/ Fail(s)
    PROVE  TypeOK'
<1>1. CASE Post(s)
  <2>1. PICK outcome \in Outcomes : pc' = [pc EXCEPT ![s] = outcome]
    BY <1>1 DEF Post
  <2>2. outcome \in InProgress \cup {"refused"}
    BY DEF Outcomes, Outcome, InProgress
  <2>3. posts' \in 0 .. MaxPosts
    BY <1>1, BoundsAssumption DEF Post, NewRequest, TypeOK
  <2> QED BY <1>1, <2>1, <2>2, <2>3, SetupUntouched DEF Post, TypeOK, applying
<1>2. CASE CountOrganisations(s)
  BY <1>2, CountIsNat, SetupUntouched
     DEF CountOrganisations, Move, InProgress, TypeOK, SetupTypeOK, applying
<1>3. CASE Insert(s)
  <2>1. Write(Inserted("organisation", orgId[s], 0, s))
    BY <1>3 DEF Insert
  <2> QED BY <1>3, <2>1, OrganisationIsStored, WriteFacts
          DEF Insert, Move, InProgress, TypeOK, SetupTypeOK, applying, instances
<1>4. CASE InsertUnconfirmed(s)
  <2>1. Write(Inserted("organisation", orgId[s], 0, s))
    BY <1>4 DEF InsertUnconfirmed
  <2> QED BY <1>4, <2>1, OrganisationIsStored, WriteFacts
          DEF InsertUnconfirmed, Move, InProgress, TypeOK, SetupTypeOK, applying, instances
<1>5. ASSUME NEW template \in Templates, SendConfirmationEmail(s, template) PROVE TypeOK'
  <2>1. pc[s] \in {"stored", "userEmailed"}
    BY <1>5 DEF SendConfirmationEmail, Move
  <2>2. emails' \subseteq [template : Templates, to : Submissions, orgId : Nat, reference : DOMAIN oplog]
    BY <1>5, <2>1, EmailIsTyped DEF SendConfirmationEmail, TypeOK
  <2>3. pc' \in [Submissions -> InProgress \cup {"idle", "answered", "refused", "failed"}]
    <3>1. PICK to \in {"userEmailed", "regulatorEmailed", "failed"} : pc' = [pc EXCEPT ![s] = to]
      BY <1>5 DEF SendConfirmationEmail, Move
    <3> QED BY <3>1 DEF InProgress, TypeOK
  <2> QED BY <1>5, <2>2, <2>3, SetupUntouched DEF SendConfirmationEmail, TypeOK, applying
<1>6. CASE EmailUnconfirmed(s)
  <2>1. pc[s] \in {"stored", "userEmailed"} /\ {"user", "regulator"} = Templates
    BY <1>6 DEF EmailUnconfirmed, Move, Templates
  <2>2. emails' \subseteq [template : Templates, to : Submissions, orgId : Nat, reference : DOMAIN oplog]
    BY <1>6, <2>1, EmailIsTyped DEF EmailUnconfirmed, TypeOK
  <2>3. pc' \in [Submissions -> InProgress \cup {"idle", "answered", "refused", "failed"}]
    <3>1. PICK to \in {"userEmailed", "regulatorEmailed", "failed"} : pc' = [pc EXCEPT ![s] = to]
      BY <1>6 DEF EmailUnconfirmed, Move
    <3> QED BY <3>1 DEF InProgress, TypeOK
  <2> QED BY <1>6, <2>2, <2>3, SetupUntouched DEF EmailUnconfirmed, TypeOK, applying
<1>7. CASE Answer(s)
  BY <1>7, SetupUntouched DEF Answer, Move, InProgress, TypeOK, applying
<1>8. CASE Fail(s)
  BY <1>8, SetupUntouched DEF Fail, InProgress, TypeOK, applying
<1> QED BY <1>1, <1>2, <1>3, <1>4, <1>5, <1>6, <1>7, <1>8

\* Whatever is posted to the two endpoints, the handler gets numbers.
LEMMA PostedIsTyped ==
    ASSUME TypeOK, NEW collection \in ApplicationCollections,
           NEW checked \in CheckedTyped[collection] \cup {Checked(collection, CopiedFrom(e)) : e \in emails}
    PROVE  /\ checked.status \in {0, 400, 422} /\ checked.valid \in BOOLEAN
           /\ checked.orgId \in Nat /\ checked.reference \in Int
<1>1. CASE checked \in CheckedTyped[collection]
  <2>1. PICK payload \in TypedPayloads : checked = Checked(collection, payload)
    BY <1>1 DEF CheckedTyped
  <2> QED BY <2>1, PayloadsAssumption, CheckedIsTyped
<1>2. ASSUME NEW e \in emails, checked = Checked(collection, CopiedFrom(e))
      PROVE  /\ checked.status \in {0, 400, 422} /\ checked.valid \in BOOLEAN
             /\ checked.orgId \in Nat /\ checked.reference \in Int
  <2>1. e.orgId \in Nat /\ e.reference \in Nat
    BY DEF TypeOK
  <2> QED BY <1>2, <2>1, CopiedIsPayload, CheckedIsTyped
<1> QED BY <1>1, <1>2

LEMMA HeldIsNotIdle == Idle \notin Held
  BY DEF Idle, Held, ApplicationCollections

LEMMA ApplicationIsStored ==
    ASSUME TypeOK, NEW a \in Applicants, application[a] # Idle
    PROVE  Inserted(application[a].at, application[a].orgId, application[a].reference, a) \in Stored
<1>1. application[a] \in Held
  BY DEF TypeOK
<1>2. /\ application[a].at \in {"registration", "accreditation"}
      /\ application[a].orgId \in Nat /\ application[a].reference \in Int
  BY <1>1 DEF Held, ApplicationCollections
<1> QED BY <1>2, ApplicationInsertedIsStored

LEMMA ApplicationKeepsTypes ==
    ASSUME TypeOK, NEW a \in Applicants,
           \/ \E collection \in ApplicationCollections : PostApplication(a, collection)
           \/ InsertApplication(a)
    PROVE  TypeOK'
<1>1. ASSUME NEW collection \in ApplicationCollections, PostApplication(a, collection) PROVE TypeOK'
  <2>1. PICK checked \in CheckedTyped[collection] \cup {Checked(collection, CopiedFrom(e)) : e \in emails} :
          IF checked.status # 0
          THEN status' = [status EXCEPT ![a] = checked.status] /\ UNCHANGED application
          ELSE /\ application' = [application EXCEPT ![a] =
                      [at |-> collection, orgId |-> checked.orgId,
                       reference |-> checked.reference, valid |-> checked.valid]]
               /\ UNCHANGED status
    BY <1>1 DEF PostApplication
  <2>2. /\ checked.status \in {0, 400, 422} /\ checked.valid \in BOOLEAN
        /\ checked.orgId \in Nat /\ checked.reference \in Int
    BY PostedIsTyped
  <2>3. [at |-> collection, orgId |-> checked.orgId,
         reference |-> checked.reference, valid |-> checked.valid] \in Held
    BY <2>2 DEF Held
  <2>4. /\ application \in [Applicants -> Held \cup {Idle}]
        /\ status \in [Applicants -> {0, 201, 400, 422, 500}]
    BY DEF TypeOK
  <2>5. status' \in [Applicants -> {0, 201, 400, 422, 500}]
    BY <2>1, <2>2, <2>4
  <2>6. application' \in [Applicants -> Held \cup {Idle}]
    BY <2>1, <2>3, <2>4
  <2>7. posts' \in 0 .. MaxPosts
    BY <1>1, BoundsAssumption DEF PostApplication, NewRequest, TypeOK
  <2> QED BY <1>1, <2>5, <2>6, <2>7, SetupUntouched DEF PostApplication, TypeOK, request
<1>2. CASE InsertApplication(a)
  <2>1. /\ status' \in [Applicants -> {0, 201, 400, 422, 500}]
        /\ application' \in [Applicants -> Held \cup {Idle}]
    <3>1. PICK code \in {201, 500} : status' = [status EXCEPT ![a] = code]
      BY <1>2 DEF InsertApplication
    <3>2. application' = [application EXCEPT ![a] = Idle]
      BY <1>2 DEF InsertApplication
    <3> QED BY <3>1, <3>2 DEF TypeOK
  <2>2. CASE UNCHANGED database
    BY <1>2, <2>1, <2>2 DEF InsertApplication, TypeOK, SetupTypeOK, database, instances, request
  <2>3. CASE Store(a)
    BY <1>2, <2>1, <2>3, ApplicationIsStored, WriteFacts
       DEF Store, InsertApplication, TypeOK, SetupTypeOK, instances, request
  <2> QED BY <1>2, <2>2, <2>3 DEF InsertApplication
<1> QED BY <1>1, <1>2
--------------------------------------------------------------------------------
(* What a step leaves alone stays in order *)

LEMMA SetUpStays ==
    ASSUME SetUpInOrder, UNCHANGED instances,
           \A k \in DOMAIN oplog : k \in DOMAIN oplog' /\ oplog'[k] = oplog[k],
           \A k \in DOMAIN oplog' : k \in DOMAIN oplog \/ oplog'[k].collection # "epr-organisations"
    PROVE  SetUpInOrder'
<1>1. \A c : Documents(c, oplog) # {} => Documents(c, oplog') # {}
  BY DEF Documents
<1>2. Documents("epr-organisations", oplog') \subseteq Documents("epr-organisations", oplog)
  BY DEF Documents
<1>3. collections' = collections /\ stage' = stage
  BY DEF instances
<1>4. ASSUME NEW i \in Instances PROVE StartInOrder(i)'
  BY <1>1, <1>3 DEF SetUpInOrder, StartInOrder
<1> QED BY <1>2, <1>4 DEF SetUpInOrder

LEMMA RequestStays ==
    ASSUME NEW s, InOrder(s), pc'[s] = pc[s], orgId'[s] = orgId[s], reference'[s] = reference[s],
           \A k \in DOMAIN oplog : k \in DOMAIN oplog' /\ oplog'[k] = oplog[k],
           emails \subseteq emails'
    PROVE  InOrder(s)'
  BY DEF InOrder, Email

LEMMA EmailsStay ==
    ASSUME EmailsTellWhatIsStored, EmailedNumbersAreValid, UNCHANGED emails,
           \A k \in DOMAIN oplog : k \in DOMAIN oplog' /\ oplog'[k] = oplog[k]
    PROVE  EmailsTellWhatIsStored' /\ EmailedNumbersAreValid'
  BY DEF EmailsTellWhatIsStored, EmailedNumbersAreValid

LEMMA ApplicationStays ==
    ASSUME NEW a, OnceStored(a), application'[a] = application[a], status'[a] = status[a],
           \A k \in DOMAIN oplog : k \in DOMAIN oplog' /\ oplog'[k] = oplog[k],
           \A k \in DOMAIN oplog' : k \in DOMAIN oplog \/ oplog'[k].from # a
    PROVE  OnceStored(a)'
  BY DEF OnceStored

\* What one document more is to the rest.
LEMMA WriteKeepsPlaces ==
    ASSUME TypeOK, NEW d \in Stored, Write(d)
    PROVE  /\ \A k \in DOMAIN oplog : k \in DOMAIN oplog' /\ oplog'[k] = oplog[k]
           /\ \A k \in DOMAIN oplog' : k \in DOMAIN oplog \/ (oplog'[k] = d /\ k = Len(oplog) + 1)
           /\ Len(oplog) + 1 \in DOMAIN oplog' /\ oplog'[Len(oplog) + 1] = d
           /\ Len(oplog) + 1 \notin DOMAIN oplog
<1>1. oplog \in Seq(Stored) /\ oplog' = Append(oplog, d)
  BY DEF TypeOK, Write
<1>2. PICK n : n = Len(oplog) + 1
  OBVIOUS
<1>3. /\ DOMAIN oplog = 1 .. Len(oplog) /\ Len(oplog) \in Nat
      /\ \A k \in DOMAIN oplog : k \in DOMAIN oplog' /\ oplog'[k] = oplog[k]
      /\ n \in DOMAIN oplog' /\ oplog'[n] = d
      /\ \A k \in DOMAIN oplog' : k \in DOMAIN oplog \/ k = n
  BY <1>1, <1>2, OplogGrows
<1>4. n \notin DOMAIN oplog
  BY <1>2, <1>3
<1>5. ASSUME NEW k \in DOMAIN oplog' PROVE k \in DOMAIN oplog \/ (oplog'[k] = d /\ k = n)
  <2>1. k \in DOMAIN oplog \/ k = n
    BY <1>3
  <2> QED BY <1>3, <2>1
<1> QED BY <1>2, <1>3, <1>4, <1>5
--------------------------------------------------------------------------------
(* Starts *)

LEMMA StartStays ==
    ASSUME NEW i, StartInOrder(i), stage'[i] = stage[i],
           collections = First(4) => collections' = First(4),
           \A c : Documents(c, oplog) # {} => Documents(c, oplog') # {}
    PROVE  StartInOrder(i)'
  BY DEF StartInOrder

\* The step of one instance: the others stay where they are.
LEMMA SetupKeepsOrder ==
    ASSUME TypeOK, SetUpInOrder, Setup
    PROVE  /\ SetUpInOrder'
           /\ \A k \in DOMAIN oplog : k \in DOMAIN oplog' /\ oplog'[k] = oplog[k]
           /\ \A k \in DOMAIN oplog' : k \in DOMAIN oplog \/ oplog'[k].from = Nobody
<1>1. CASE Replicate
  BY <1>1 DEF Replicate, instances, SetUpInOrder, StartInOrder
<1>2. SUFFICES ASSUME NEW i \in Instances, SetupStep(i)
               PROVE  /\ SetUpInOrder'
                      /\ \A k \in DOMAIN oplog : k \in DOMAIN oplog' /\ oplog'[k] = oplog[k]
                      /\ \A k \in DOMAIN oplog' : k \in DOMAIN oplog \/ oplog'[k].from = Nobody
  BY <1>1 DEF Setup
<1>3. /\ stage \in [Instances -> Stages] /\ collections \subseteq First(4) /\ seeded[i] \in Int
      /\ applied \in 0 .. Len(oplog) /\ oplog \in Seq(Stored)
  BY DEF TypeOK, SetupTypeOK
<1>4. \A j \in Instances : j # i => stage'[j] = stage[j]
  <2>1. CASE CreateOrUpdateCollections(i)
    BY <1>3, <2>1 DEF CreateOrUpdateCollections, Goto
  <2>2. CASE CountOrganisationsForSeed(i) \/ CountEPROrganisations(i)
    BY <1>3, <2>2 DEF CountOrganisationsForSeed, CountEPROrganisations, Goto
  <2>3. CASE SeedOrganisation(i) \/ SeedRegistration(i) \/ SeedAccreditation(i)
    BY <1>3, <2>3 DEF SeedOrganisation, SeedRegistration, SeedAccreditation, Goto
  <2>4. CASE SeedEPROrganisations(i)
    BY <1>3, <2>4 DEF SeedEPROrganisations, Goto
  <2>5. CASE StartFails(i)
    BY <1>3, <2>5 DEF StartFails, Goto
  <2> QED BY <1>2, <2>1, <2>2, <2>3, <2>4, <2>5 DEF SetupStep
<1>5. \A n \in 0 .. 4 : collections = First(4) => collections \cup First(n) = First(4)
  BY FirstAreSome
<1>6. \/ CreateOrUpdateCollections(i)
      \/ UNCHANGED <<database, collections>>
      \/ \E d \in Stored :
            /\ Write(d) /\ d.from = Nobody /\ UNCHANGED collections
            /\ d.collection = "epr-organisations" => Documents("epr-organisations", oplog) = {}
  <2>1. /\ Inserted("organisation", Start, 0, Nobody) \in Stored
        /\ Inserted("registration", Start, seeded[i], Nobody) \in Stored
        /\ Inserted("accreditation", Start, seeded[i], Nobody) \in Stored
    BY <1>3, OrganisationInsertedIsStored, ApplicationInsertedIsStored, StartAssumption
  <2>2. Inserted("epr-organisations", 0, 0, Nobody) \in Stored
    BY SampleInsertedIsStored
  <2>3. CASE SeedOrganisation(i)
    BY <2>1, <2>3 DEF SeedOrganisation, Inserted
  <2>4. CASE SeedRegistration(i)
    BY <1>3, <2>1, <2>4 DEF SeedRegistration, Inserted
  <2>5. CASE SeedAccreditation(i)
    BY <1>3, <2>1, <2>5 DEF SeedAccreditation, Inserted
  <2>6. CASE SeedEPROrganisations(i)
    BY <2>2, <2>6 DEF SeedEPROrganisations, Inserted
  <2>7. CASE CountOrganisationsForSeed(i) \/ CountEPROrganisations(i) \/ StartFails(i)
    BY <2>7 DEF CountOrganisationsForSeed, CountEPROrganisations, StartFails
  <2> QED BY <1>2, <2>3, <2>4, <2>5, <2>6, <2>7 DEF SetupStep
<1>7. /\ \A k \in DOMAIN oplog : k \in DOMAIN oplog' /\ oplog'[k] = oplog[k]
      /\ \A k \in DOMAIN oplog' : k \in DOMAIN oplog \/ oplog'[k].from = Nobody
      /\ \A k, l \in Documents("epr-organisations", oplog') : k = l
  <2>1. CASE oplog' = oplog
    BY <2>1 DEF SetUpInOrder
  <2>2. ASSUME NEW d \in Stored, Write(d), d.from = Nobody,
               d.collection = "epr-organisations" => Documents("epr-organisations", oplog) = {}
        PROVE  <1>7!1 /\ <1>7!2 /\ <1>7!3
    BY <2>2, WriteKeepsPlaces DEF SetUpInOrder, Documents
  <2>3. CASE CreateOrUpdateCollections(i) \/ UNCHANGED <<database, collections>>
    BY <2>1, <2>3 DEF CreateOrUpdateCollections, database
  <2> QED BY <1>6, <2>2, <2>3
<1>8. \A c : Documents(c, oplog) # {} => Documents(c, oplog') # {}
  BY <1>7 DEF Documents
<1>9. collections = First(4) => collections' = First(4)
  <2>2. CASE UNCHANGED collections
    BY <2>2
  <2>1. CASE CreateOrUpdateCollections(i)
    BY <1>5, <2>1 DEF CreateOrUpdateCollections
  <2> QED BY <1>6, <2>1, <2>2
<1>10. ASSUME NEW j \in Instances, j # i PROVE StartInOrder(j)'
  BY <1>4, <1>8, <1>9, <1>10, StartStays DEF SetUpInOrder
<1>11. StartInOrder(i)'
  <2>1. StartInOrder(i)
    BY DEF SetUpInOrder
  <2>2. CASE CreateOrUpdateCollections(i)
    BY <1>3, <2>2, FirstAreSome DEF CreateOrUpdateCollections, Goto, StartInOrder
  <2>3. CASE CountOrganisationsForSeed(i)
    BY <1>3, <1>8, <1>9, <2>1, <2>3, CountedAreStored DEF CountOrganisationsForSeed, Goto, StartInOrder
  <2>4. CASE SeedOrganisation(i)
    <3>1. Inserted("organisation", Start, 0, Nobody) \in Stored
      BY OrganisationInsertedIsStored, StartAssumption
    <3>2. Documents("organisation", oplog') # {}
      BY <2>4, <3>1, WriteKeepsPlaces DEF SeedOrganisation, Documents, Inserted
    <3> QED BY <1>3, <1>9, <2>1, <2>4, <3>2 DEF SeedOrganisation, Goto, StartInOrder
  <2>5. CASE SeedRegistration(i)
    BY <1>3, <1>8, <1>9, <2>1, <2>5 DEF SeedRegistration, Goto, StartInOrder
  <2>6. CASE SeedAccreditation(i)
    BY <1>3, <1>8, <1>9, <2>1, <2>6 DEF SeedAccreditation, Goto, StartInOrder
  <2>7. CASE CountEPROrganisations(i)
    BY <1>3, <1>8, <1>9, <2>1, <2>7, CountedAreStored DEF CountEPROrganisations, Goto, StartInOrder
  <2>8. CASE SeedEPROrganisations(i)
    <3>1. CASE Documents("epr-organisations", oplog) = {}
      <4>1. Inserted("epr-organisations", 0, 0, Nobody) \in Stored
        BY SampleInsertedIsStored
      <4>2. Documents("epr-organisations", oplog') # {}
        BY <2>8, <3>1, <4>1, WriteKeepsPlaces DEF SeedEPROrganisations, Documents, Inserted
      <4> QED BY <1>3, <1>8, <1>9, <2>1, <2>8, <3>1, <4>2 DEF SeedEPROrganisations, Goto, StartInOrder
    <3>2. CASE Documents("epr-organisations", oplog) # {}
      BY <1>3, <2>8, <3>2 DEF SeedEPROrganisations, Goto, StartInOrder
    <3> QED BY <3>1, <3>2
  <2>9. CASE StartFails(i)
    <3>1. stage'[i] = "failed"
      BY <1>3, <2>9 DEF StartFails, Goto
    <3> QED BY <3>1 DEF StartInOrder
  <2> QED BY <1>2, <2>2, <2>3, <2>4, <2>5, <2>6, <2>7, <2>8, <2>9 DEF SetupStep
<1> QED BY <1>7, <1>10, <1>11 DEF SetUpInOrder
--------------------------------------------------------------------------------
(* Requests *)

\* A step of one request that stores nothing: only that request and the emails move.
LEMMA RequestMoves ==
    ASSUME TypeOK, IInv, NEW s \in Submissions, UNCHANGED <<setupVars, applying>>,
           \A t \in Submissions \ {s} :
             pc'[t] = pc[t] /\ orgId'[t] = orgId[t] /\ reference'[t] = reference[t],
           emails \subseteq emails', InOrder(s)',
           EmailsTellWhatIsStored', EmailedNumbersAreValid'
    PROVE  /\ SetUpInOrder' /\ RequestsInOrder' /\ \A a \in Applicants : OnceStored(a)'
           /\ EmailsTellWhatIsStored' /\ EmailedNumbersAreValid'
<1>1. UNCHANGED <<oplog, instances, application, status>>
  BY DEF setupVars, instances, applying
<1>2. SetUpInOrder'
  BY <1>1, SetUpStays DEF IInv
<1>3. ASSUME NEW t \in Submissions \ {s} PROVE InOrder(t)'
  BY <1>1, RequestStays DEF IInv, RequestsInOrder
<1>4. ASSUME NEW a \in Applicants PROVE OnceStored(a)'
  BY <1>1, ApplicationStays DEF IInv
<1> QED BY <1>2, <1>3, <1>4 DEF RequestsInOrder

\* What an email says of a document that is stored is true.
LEMMA EmailIsTrue ==
    ASSUME TypeOK, RequestsInOrder, NEW s \in Submissions, NEW template \in Templates,
           pc[s] \in {"stored", "userEmailed"}, NEW e, e = Email(template, s)
    PROVE  /\ e.reference \in DOMAIN oplog /\ OrgIdValid(e.orgId)
           /\ oplog[e.reference] = Inserted("organisation", e.orgId, 0, e.to)
<1>1. /\ reference[s] \in DOMAIN oplog /\ OrgIdValid(orgId[s])
      /\ oplog[reference[s]] = Inserted("organisation", orgId[s], 0, s)
  BY DEF RequestsInOrder, InOrder
<1>2. e.reference = reference[s] /\ e.orgId = orgId[s] /\ e.to = s
  BY DEF Email
<1> QED BY <1>1, <1>2

LEMMA EmailingStays ==
    ASSUME TypeOK, IInv, NEW s \in Submissions, NEW template \in Templates,
           pc[s] \in {"stored", "userEmailed"}, UNCHANGED oplog,
           emails' = emails \cup {Email(template, s)}
    PROVE  EmailsTellWhatIsStored' /\ EmailedNumbersAreValid'
<1>1. PICK e : e = Email(template, s)
  OBVIOUS
<1>2. /\ e.reference \in DOMAIN oplog /\ OrgIdValid(e.orgId)
      /\ oplog[e.reference] = Inserted("organisation", e.orgId, 0, e.to)
  BY <1>1, EmailIsTrue DEF IInv
<1>3. emails' = emails \cup {e}
  BY <1>1
<1> QED BY <1>2, <1>3 DEF IInv, EmailsTellWhatIsStored, EmailedNumbersAreValid

\* The insert of an organisation, with or without a confirmation.
LEMMA OrganisationInserted ==
    ASSUME TypeOK, IInv, NEW s \in Submissions, UNCHANGED <<instances, emails, applying>>,
           Write(Inserted("organisation", orgId[s], 0, s)),
           \A t \in Submissions \ {s} :
             pc'[t] = pc[t] /\ orgId'[t] = orgId[t] /\ reference'[t] = reference[t],
           InOrder(s)'
    PROVE  /\ SetUpInOrder' /\ RequestsInOrder' /\ \A a \in Applicants : OnceStored(a)'
           /\ EmailsTellWhatIsStored' /\ EmailedNumbersAreValid'
<1>1. PICK d \in Stored : /\ d = Inserted("organisation", orgId[s], 0, s)
                          /\ Write(d) /\ d.from = s /\ d.collection = "organisation"
  BY OrganisationIsStored DEF Inserted
<1>2. /\ \A k \in DOMAIN oplog : k \in DOMAIN oplog' /\ oplog'[k] = oplog[k]
      /\ \A k \in DOMAIN oplog' : k \in DOMAIN oplog \/ oplog'[k] = d
  BY <1>1, WriteKeepsPlaces
<1>3. \A k \in DOMAIN oplog' : k \in DOMAIN oplog \/ oplog'[k].collection # "epr-organisations"
  BY <1>1, <1>2
<1>4. SetUpInOrder'
  BY <1>2, <1>3, SetUpStays DEF IInv
<1>5. ASSUME NEW t \in Submissions \ {s} PROVE InOrder(t)'
  BY <1>2, RequestStays DEF IInv, RequestsInOrder
<1>6. ASSUME NEW a \in Applicants PROVE OnceStored(a)'
  <2>1. application'[a] = application[a] /\ status'[a] = status[a]
    BY DEF applying
  <2>2. \A k \in DOMAIN oplog' : k \in DOMAIN oplog \/ oplog'[k].from # a
    BY <1>1, <1>2, NobodyAssumption
  <2> QED BY <1>2, <2>1, <2>2, ApplicationStays DEF IInv
<1>7. EmailsTellWhatIsStored' /\ EmailedNumbersAreValid'
  BY <1>2, EmailsStay DEF IInv
<1> QED BY <1>4, <1>5, <1>6, <1>7 DEF RequestsInOrder

LEMMA RequestKeepsOrder ==
    ASSUME TypeOK, IInv, NEW s \in Submissions,
           \/ Post(s) \/ CountOrganisations(s) \/ Insert(s) \/ InsertUnconfirmed(s)
           \/ \E template \in Templates : SendConfirmationEmail(s, template)
           \/ EmailUnconfirmed(s) \/ Answer(s) \/ Fail(s)
    PROVE  /\ SetUpInOrder' /\ RequestsInOrder' /\ \A a \in Applicants : OnceStored(a)'
           /\ EmailsTellWhatIsStored' /\ EmailedNumbersAreValid'
<1> DEFINE Others == \A t \in Submissions \ {s} :
             pc'[t] = pc[t] /\ orgId'[t] = orgId[t] /\ reference'[t] = reference[t]
<1>1. /\ pc \in [Submissions -> InProgress \cup {"idle", "answered", "refused", "failed"}]
      /\ orgId \in [Submissions -> Nat] /\ reference \in [Submissions -> 0 .. Len(oplog)]
  BY DEF TypeOK
<1>2. InOrder(s)
  BY DEF IInv, RequestsInOrder
<1>3. EmailsTellWhatIsStored /\ EmailedNumbersAreValid
  BY DEF IInv
<1>4. oplog' = oplog /\ emails' = emails => EmailsTellWhatIsStored' /\ EmailedNumbersAreValid'
  BY <1>3, EmailsStay
<1>5. CASE Post(s)
  <2>1. PICK outcome \in Outcomes : pc' = [pc EXCEPT ![s] = outcome]
    BY <1>5 DEF Post
  <2>2. outcome \in {"refused", "posted", "unstorable"}
    BY DEF Outcomes, Outcome
  <2>3. UNCHANGED <<setupVars, orgId, reference, emails, applying>> /\ oplog' = oplog
    BY <1>5 DEF Post, setupVars
  <2>4. Others /\ pc'[s] = outcome
    BY <1>1, <2>1, <2>3
  <2>5. InOrder(s)'
    BY <2>2, <2>4 DEF InOrder
  <2> HIDE DEF Others
  <2> QED BY <1>4, <2>3, <2>4, <2>5, RequestMoves DEF Others
<1>6. CASE CountOrganisations(s)
  <2>1. UNCHANGED <<setupVars, reference, emails, applying>> /\ oplog' = oplog
    BY <1>6 DEF CountOrganisations, setupVars
  <2>2. Others /\ pc'[s] = "counted"
    BY <1>1, <1>6, <2>1 DEF CountOrganisations, Move
  <2>3. InOrder(s)'
    BY <2>2 DEF InOrder
  <2> QED BY <1>4, <2>1, <2>2, <2>3, RequestMoves
<1>7. CASE Insert(s)
  <2>1. PICK n : n = Len(oplog) + 1
    OBVIOUS
  <2>2. PICK d \in Stored : d = Inserted("organisation", orgId[s], 0, s) /\ Write(d)
    BY <1>7, OrganisationIsStored DEF Insert
  <2>3. n \in DOMAIN oplog' /\ oplog'[n] = d
    BY <2>1, <2>2, WriteKeepsPlaces
  <2>4. UNCHANGED <<instances, orgId, emails, applying>> /\ OrgIdValid(orgId[s])
    BY <1>7 DEF Insert
  <2>5. Others /\ pc'[s] = "stored" /\ orgId'[s] = orgId[s] /\ reference'[s] = n
    BY <1>1, <1>7, <2>1, <2>4 DEF Insert, Move
  <2>6. InOrder(s)'
    BY <2>2, <2>3, <2>4, <2>5 DEF InOrder
  <2> QED BY <2>2, <2>4, <2>5, <2>6, OrganisationInserted
<1>8. CASE InsertUnconfirmed(s)
  <2>1. /\ UNCHANGED <<instances, orgId, reference, emails, applying>>
        /\ Write(Inserted("organisation", orgId[s], 0, s))
    BY <1>8 DEF InsertUnconfirmed
  <2>2. Others /\ pc'[s] = "failed"
    BY <1>1, <1>8, <2>1 DEF InsertUnconfirmed, Move
  <2>3. InOrder(s)'
    BY <2>2 DEF InOrder
  <2> QED BY <2>1, <2>2, <2>3, OrganisationInserted
<1>9. ASSUME NEW template \in Templates, SendConfirmationEmail(s, template)
      PROVE  /\ SetUpInOrder' /\ RequestsInOrder' /\ \A a \in Applicants : OnceStored(a)'
             /\ EmailsTellWhatIsStored' /\ EmailedNumbersAreValid'
  <2>1. /\ UNCHANGED <<setupVars, orgId, reference, applying>> /\ oplog' = oplog
        /\ emails' = emails \cup {Email(template, s)}
    BY <1>9 DEF SendConfirmationEmail, setupVars
  <2>2. \/ template = "user" /\ pc[s] = "stored" /\ pc' = [pc EXCEPT ![s] = "userEmailed"]
        \/ template = "regulator" /\ pc[s] = "userEmailed" /\ pc' = [pc EXCEPT ![s] = "regulatorEmailed"]
    BY <1>9 DEF SendConfirmationEmail, Move, Templates
  <2>3. Others
    BY <1>1, <2>1, <2>2
  <2>4. InOrder(s)'
    <3>1. /\ reference[s] \in DOMAIN oplog' /\ OrgIdValid(orgId[s])
          /\ oplog'[reference[s]] = Inserted("organisation", orgId[s], 0, s)
      BY <1>2, <2>1, <2>2 DEF InOrder
    <3>2. /\ pc'[s] \in {"userEmailed", "regulatorEmailed"} => Email("user", s) \in emails'
          /\ pc'[s] = "regulatorEmailed" => Email("regulator", s) \in emails'
          /\ pc'[s] \in {"userEmailed", "regulatorEmailed"}
      BY <1>1, <1>2, <2>1, <2>2 DEF InOrder
    <3> QED BY <2>1, <3>1, <3>2 DEF InOrder, Email
  <2>5. EmailsTellWhatIsStored' /\ EmailedNumbersAreValid'
    BY <2>1, <2>2, EmailingStays
  <2> QED BY <2>1, <2>3, <2>4, <2>5, RequestMoves
<1>10. CASE EmailUnconfirmed(s)
  <2>1. UNCHANGED <<setupVars, orgId, reference, applying>> /\ oplog' = oplog
    BY <1>10 DEF EmailUnconfirmed, setupVars
  <2>2. /\ pc[s] \in {"stored", "userEmailed"} /\ pc' = [pc EXCEPT ![s] = "failed"]
        /\ \E template \in Templates : emails' = emails \cup {Email(template, s)}
    BY <1>10 DEF EmailUnconfirmed, Move, Templates
  <2>3. Others /\ pc'[s] = "failed"
    BY <1>1, <2>1, <2>2
  <2>4. InOrder(s)'
    BY <2>3 DEF InOrder
  <2>5. EmailsTellWhatIsStored' /\ EmailedNumbersAreValid'
    BY <2>1, <2>2, EmailingStays
  <2> QED BY <2>1, <2>2, <2>3, <2>4, <2>5, RequestMoves
<1>11. CASE Answer(s)
  <2>1. UNCHANGED <<setupVars, orgId, reference, emails, applying>> /\ oplog' = oplog
    BY <1>11 DEF Answer, setupVars
  <2>2. Others /\ pc[s] = "regulatorEmailed" /\ pc'[s] = "answered"
    BY <1>1, <1>11, <2>1 DEF Answer, Move
  <2>3. InOrder(s)'
    BY <1>2, <2>1, <2>2 DEF InOrder, Email
  <2> QED BY <1>4, <2>1, <2>2, <2>3, RequestMoves
<1>12. CASE Fail(s)
  <2>1. UNCHANGED <<setupVars, orgId, reference, emails, applying>> /\ oplog' = oplog
    BY <1>12 DEF Fail, setupVars
  <2>2. Others /\ pc'[s] = "failed"
    BY <1>1, <1>12, <2>1 DEF Fail
  <2>3. InOrder(s)'
    BY <2>2 DEF InOrder
  <2> QED BY <1>4, <2>1, <2>2, <2>3, RequestMoves
<1> QED BY <1>5, <1>6, <1>7, <1>8, <1>9, <1>10, <1>11, <1>12
--------------------------------------------------------------------------------
(* Registrations and accreditations *)

\* A step of one applicant: what it stores, if anything, is its own.
LEMMA ApplicationMoves ==
    ASSUME TypeOK, IInv, NEW a \in Applicants, UNCHANGED <<instances, request, emails>>,
           \A b \in Applicants \ {a} : application'[b] = application[b] /\ status'[b] = status[b],
           \A k \in DOMAIN oplog : k \in DOMAIN oplog' /\ oplog'[k] = oplog[k],
           \A k \in DOMAIN oplog' : k \in DOMAIN oplog \/ oplog'[k].from = a,
           \A k \in DOMAIN oplog' : k \in DOMAIN oplog \/ oplog'[k].collection # "epr-organisations",
           OnceStored(a)'
    PROVE  /\ SetUpInOrder' /\ RequestsInOrder' /\ \A b \in Applicants : OnceStored(b)'
           /\ EmailsTellWhatIsStored' /\ EmailedNumbersAreValid'
<1>1. SetUpInOrder'
  BY SetUpStays DEF IInv
<1>2. ASSUME NEW s \in Submissions PROVE InOrder(s)'
  BY RequestStays DEF IInv, RequestsInOrder, request
<1>3. ASSUME NEW b \in Applicants \ {a} PROVE OnceStored(b)'
  <2>1. \A k \in DOMAIN oplog' : k \in DOMAIN oplog \/ oplog'[k].from # b
    OBVIOUS
  <2> QED BY <2>1, ApplicationStays DEF IInv
<1>4. EmailsTellWhatIsStored' /\ EmailedNumbersAreValid'
  BY EmailsStay DEF IInv
<1> QED BY <1>1, <1>2, <1>3, <1>4 DEF RequestsInOrder

LEMMA ApplicationKeepsOrder ==
    ASSUME TypeOK, IInv, NEW a \in Applicants,
           \/ \E collection \in ApplicationCollections : PostApplication(a, collection)
           \/ InsertApplication(a)
    PROVE  /\ SetUpInOrder' /\ RequestsInOrder' /\ \A b \in Applicants : OnceStored(b)'
           /\ EmailsTellWhatIsStored' /\ EmailedNumbersAreValid'
<1>1. OnceStored(a)
  BY DEF IInv
<1>2. /\ application \in [Applicants -> Held \cup {Idle}]
      /\ status \in [Applicants -> {0, 201, 400, 422, 500}]
  BY DEF TypeOK
<1>3. ASSUME NEW collection \in ApplicationCollections, PostApplication(a, collection)
      PROVE  /\ SetUpInOrder' /\ RequestsInOrder' /\ \A b \in Applicants : OnceStored(b)'
             /\ EmailsTellWhatIsStored' /\ EmailedNumbersAreValid'
  <2>1. /\ UNCHANGED <<setupVars, request, emails>> /\ application[a] = Idle /\ status[a] = 0
        /\ oplog' = oplog /\ UNCHANGED instances
    BY <1>3 DEF PostApplication, setupVars, instances
  <2>2. PICK checked \in CheckedTyped[collection] \cup {Checked(collection, CopiedFrom(e)) : e \in emails} :
          IF checked.status # 0
          THEN status' = [status EXCEPT ![a] = checked.status] /\ UNCHANGED application
          ELSE /\ application' = [application EXCEPT ![a] =
                      [at |-> collection, orgId |-> checked.orgId,
                       reference |-> checked.reference, valid |-> checked.valid]]
               /\ UNCHANGED status
    BY <1>3 DEF PostApplication
  <2>3. checked.status \in {0, 400, 422}
    BY PostedIsTyped
  <2>4. /\ \A b \in Applicants \ {a} : application'[b] = application[b] /\ status'[b] = status[b]
        /\ \/ status'[a] \in {400, 422} /\ application'[a] = Idle
           \/ status'[a] = 0
    BY <1>2, <2>1, <2>2, <2>3
  <2>5. OnceStored(a)'
    BY <1>1, <2>1, <2>4 DEF OnceStored
  <2>6. /\ \A k \in DOMAIN oplog : k \in DOMAIN oplog' /\ oplog'[k] = oplog[k]
        /\ \A k \in DOMAIN oplog' : k \in DOMAIN oplog
    BY <2>1
  <2>7. UNCHANGED <<instances, request, emails>>
    BY <2>1
  <2> QED BY <2>4, <2>5, <2>6, <2>7, ApplicationMoves
<1>4. CASE InsertApplication(a)
  <2>1. /\ UNCHANGED <<instances, request, emails>> /\ application[a] # Idle /\ status[a] = 0
        /\ application' = [application EXCEPT ![a] = Idle]
    BY <1>1, <1>4 DEF InsertApplication, OnceStored
  <2>2. PICK code \in {201, 500} : /\ status' = [status EXCEPT ![a] = code]
                                   /\ (UNCHANGED database /\ code = 500) \/ Store(a)
    BY <1>4 DEF InsertApplication
  <2>3. /\ \A b \in Applicants \ {a} : application'[b] = application[b] /\ status'[b] = status[b]
        /\ application'[a] = Idle /\ status'[a] = code
    BY <1>2, <2>1, <2>2
  <2>4. \A k \in DOMAIN oplog : oplog[k].from # a
    BY <1>1, <2>1 DEF OnceStored
  <2>5. CASE UNCHANGED database /\ code = 500
    <3>1. oplog' = oplog
      BY <2>5 DEF database
    <3>2. OnceStored(a)'
      BY <2>3, <2>4, <2>5, <3>1 DEF OnceStored
    <3>3. /\ \A k \in DOMAIN oplog : k \in DOMAIN oplog' /\ oplog'[k] = oplog[k]
          /\ \A k \in DOMAIN oplog' : k \in DOMAIN oplog
      BY <3>1
    <3> QED BY <2>1, <2>3, <3>2, <3>3, ApplicationMoves
  <2>6. CASE Store(a)
    <3>1. PICK d \in Stored : Write(d) /\ d.from = a /\ d.collection # "epr-organisations"
      <4>1. application[a].at # "epr-organisations"
        BY <1>2, <2>1 DEF Held, ApplicationCollections
      <4> QED BY <2>1, <2>6, <4>1, ApplicationIsStored DEF Store, Inserted
    <3>2. PICK n : n = Len(oplog) + 1
      OBVIOUS
    <3>3. /\ \A k \in DOMAIN oplog : k \in DOMAIN oplog' /\ oplog'[k] = oplog[k]
          /\ \A k \in DOMAIN oplog' : k \in DOMAIN oplog \/ (oplog'[k] = d /\ k = n)
          /\ n \in DOMAIN oplog' /\ oplog'[n] = d
      BY <3>1, <3>2, WriteKeepsPlaces
    <3>4. OnceStored(a)'
      <4>1. \A k \in DOMAIN oplog' : oplog'[k].from = a => k = n
        BY <2>4, <3>3
      <4> QED BY <2>3, <3>1, <3>3, <4>1 DEF OnceStored
    <3>5. /\ \A k \in DOMAIN oplog' : k \in DOMAIN oplog \/ oplog'[k].from = a
          /\ \A k \in DOMAIN oplog' : k \in DOMAIN oplog \/ oplog'[k].collection # "epr-organisations"
      BY <3>1, <3>3
    <3> QED BY <2>1, <2>3, <3>3, <3>4, <3>5, ApplicationMoves
  <2> QED BY <2>2, <2>5, <2>6
<1> QED BY <1>3, <1>4
--------------------------------------------------------------------------------
(* The invariant *)

LEMMA InitiallyIInv == Init => IInv
<1> SUFFICES ASSUME Init PROVE IInv
  OBVIOUS
<1>1. /\ collections = {} /\ oplog = <<>> /\ applied = 0
      /\ stage = [i \in Instances |-> "collections"] /\ seeded = [i \in Instances |-> 0]
      /\ pc = [s \in Submissions |-> "idle"] /\ orgId = [s \in Submissions |-> 0]
      /\ reference = [s \in Submissions |-> 0] /\ posts = 0 /\ emails = {}
      /\ application = [a \in Applicants |-> Idle] /\ status = [a \in Applicants |-> 0]
  BY DEF Init, SetupInit
<1>2. oplog \in Seq(Stored) /\ Len(oplog) = 0 /\ DOMAIN oplog = {}
  BY <1>1
<1>3. TypeOK
  BY <1>1, <1>2, SetupBoundsAssumption, BoundsAssumption DEF TypeOK, SetupTypeOK, Stages
<1>4. SetUpInOrder
  BY <1>1, <1>2 DEF SetUpInOrder, StartInOrder, Documents
<1>5. RequestsInOrder
  BY <1>1 DEF RequestsInOrder, InOrder
<1>6. \A a \in Applicants : OnceStored(a)
  BY <1>1, <1>2 DEF OnceStored
<1>7. EmailsTellWhatIsStored /\ EmailedNumbersAreValid
  BY <1>1 DEF EmailsTellWhatIsStored, EmailedNumbersAreValid
<1> QED BY <1>3, <1>4, <1>5, <1>6, <1>7 DEF IInv

LEMMA NextKeepsIInv == IInv /\ [Next]_vars => IInv'
<1> SUFFICES ASSUME IInv, [Next]_vars PROVE IInv'
  OBVIOUS
<1>1. TypeOK
  BY DEF IInv
<1>2. CASE UNCHANGED vars
  <2>1. UNCHANGED <<collections, oplog, applied, stage, seeded, pc, orgId, reference,
                    posts, emails, application, status>>
    BY <1>2 DEF vars, setupVars, request, applying
  <2>2. TypeOK'
    BY <1>1, <2>1 DEF TypeOK, SetupTypeOK
  <2>3. SetUpInOrder'
    BY <2>1 DEF IInv, SetUpInOrder, StartInOrder
  <2>4. RequestsInOrder'
    BY <2>1 DEF IInv, RequestsInOrder, InOrder, Email
  <2>5. (\A a \in Applicants : OnceStored(a))'
    BY <2>1 DEF IInv, OnceStored
  <2>6. EmailsTellWhatIsStored' /\ EmailedNumbersAreValid'
    BY <2>1 DEF IInv, EmailsTellWhatIsStored, EmailedNumbersAreValid
  <2> QED BY <2>2, <2>3, <2>4, <2>5, <2>6 DEF IInv
<1>3. CASE Setup
  <2>1. UNCHANGED <<request, emails, applying>>
    BY <1>3 DEF Setup
  <2>2. /\ SetUpInOrder'
        /\ \A k \in DOMAIN oplog : k \in DOMAIN oplog' /\ oplog'[k] = oplog[k]
        /\ \A k \in DOMAIN oplog' : k \in DOMAIN oplog \/ oplog'[k].from = Nobody
    BY <1>1, <1>3, SetupKeepsOrder DEF IInv
  <2>3. TypeOK'
    BY <1>1, <1>3, SetupKeepsTypes
  <2>4. ASSUME NEW s \in Submissions PROVE InOrder(s)'
    BY <2>1, <2>2, RequestStays DEF IInv, RequestsInOrder, request
  <2>5. ASSUME NEW a \in Applicants PROVE OnceStored(a)'
    <3>1. \A k \in DOMAIN oplog' : k \in DOMAIN oplog \/ oplog'[k].from # a
      BY <2>2, NobodyAssumption
    <3>2. application'[a] = application[a] /\ status'[a] = status[a]
      BY <2>1 DEF applying
    <3> QED BY <2>2, <3>1, <3>2, ApplicationStays DEF IInv
  <2>6. EmailsTellWhatIsStored' /\ EmailedNumbersAreValid'
    BY <2>1, <2>2, EmailsStay DEF IInv
  <2> QED BY <2>2, <2>3, <2>4, <2>5, <2>6 DEF IInv, RequestsInOrder
<1>4. ASSUME NEW s \in Submissions,
             \/ Post(s) \/ CountOrganisations(s) \/ Insert(s) \/ InsertUnconfirmed(s)
             \/ \E template \in Templates : SendConfirmationEmail(s, template)
             \/ EmailUnconfirmed(s) \/ Answer(s) \/ Fail(s)
      PROVE  IInv'
  <2>1. TypeOK'
    BY <1>1, <1>4, RequestKeepsTypes DEF IInv
  <2> QED BY <1>1, <1>4, <2>1, RequestKeepsOrder DEF IInv
<1>5. ASSUME NEW a \in Applicants,
             \/ \E collection \in ApplicationCollections : PostApplication(a, collection)
             \/ InsertApplication(a)
      PROVE  IInv'
  <2>1. TypeOK'
    BY <1>1, <1>5, ApplicationKeepsTypes
  <2> QED BY <1>1, <1>5, <2>1, ApplicationKeepsOrder DEF IInv
<1> QED BY <1>2, <1>3, <1>4, <1>5 DEF Next

\* The invariant that the theorems below rest on: what is stored by the place where
\* each start, request and application is.
THEOREM InductiveInvariant == Spec => []IInv
  BY InitiallyIInv, NextKeepsIInv, PTL DEF Spec

\* Every variable keeps its type.
THEOREM TypeCorrect == Spec => []TypeOK
<1>1. IInv => TypeOK
  BY DEF IInv
<1> QED BY <1>1, InductiveInvariant, PTL
--------------------------------------------------------------------------------
(* What it implies *)

\* However many requests race and fail, an email names the document of its reader's
\* form and the orgId in it.
THEOREM EmailsTell == Spec => []EmailsTellWhatIsStored
<1>1. IInv => EmailsTellWhatIsStored
  BY DEF IInv
<1> QED BY <1>1, InductiveInvariant, PTL

\* The numbers in an email are taken by the payload check and by both validators.
THEOREM EmailedAccepted == Spec => []EmailedNumbersAreAccepted
<1>1. IInv => EmailedNumbersAreAccepted
  <2> SUFFICES ASSUME IInv PROVE EmailedNumbersAreAccepted
    OBVIOUS
  <2>1. ASSUME NEW e \in emails
        PROVE  /\ ApplicationPayloadStatus(CopiedFrom(e)) = 0
               /\ \A collection \in ApplicationCollections :
                     ApplicationValid(collection, ApplicationDocument(CopiedFrom(e)))
    <3>1. OrgIdValid(e.orgId)
      BY DEF IInv, EmailedNumbersAreValid
    <3> QED BY <3>1, CopiedIsAccepted
  <2> QED BY <2>1 DEF EmailedNumbersAreAccepted
<1> QED BY <1>1, InductiveInvariant, PTL

\* However many instances start together or after each other, one that serves has
\* all collections, an organisation, and the sample organisations once.
THEOREM ServesSetUp == Spec => []ServesASetUpDatabase
<1>1. IInv => ServesASetUpDatabase
  <2> SUFFICES ASSUME IInv, Serving # {} PROVE ServesASetUpDatabase
    BY DEF ServesASetUpDatabase
  <2>1. PICK i \in Instances : stage[i] = "ready"
    BY DEF Serving
  <2>2. /\ collections = First(4) /\ Documents("organisation", oplog) # {}
        /\ Documents("epr-organisations", oplog) # {}
        /\ \A k, l \in Documents("epr-organisations", oplog) : k = l
    BY <2>1 DEF IInv, SetUpInOrder, StartInOrder
  <2>3. PICK k : Documents("epr-organisations", oplog) = {k}
    BY <2>2
  <2>4. Cardinality(Documents("epr-organisations", oplog)) = 1
    BY <2>3, FS_Singleton
  <2> QED BY <2>2, <2>4 DEF ServesASetUpDatabase
<1> QED BY <1>1, InductiveInvariant, PTL

\* How many places hold what an applicant sent.
LEMMA OnceIsCounted ==
    ASSUME NEW a, OnceStored(a), status[a] \in {0, 201, 400, 422, 500},
           NEW stored, stored = Cardinality({k \in DOMAIN oplog : oplog[k].from = a})
    PROVE  /\ status[a] = 201 => stored = 1
           /\ stored \in {0, 1}
           /\ status[a] \notin {201, 500} => stored = 0
<1> DEFINE S == {k \in DOMAIN oplog : oplog[k].from = a}
<1>1. \A k, l \in S : k = l
  BY DEF OnceStored
<1>2. status[a] = 201 => S # {}
  BY DEF OnceStored
<1>3. status[a] \notin {201, 500} => S = {}
  BY DEF OnceStored
<1> HIDE DEF S
<1>4. S = {} => Cardinality(S) = 0
  BY FS_EmptySet
<1>5. S # {} => Cardinality(S) = 1
  <2> SUFFICES ASSUME NEW k \in S PROVE Cardinality(S) = 1
    OBVIOUS
  <2>1. S = {k}
    BY <1>1
  <2> QED BY <2>1, FS_Singleton
<1>6. stored = Cardinality(S)
  BY DEF S
<1> QED BY <1>2, <1>3, <1>4, <1>5, <1>6

\* What clients are told is true of the database, whatever races and fails.
THEOREM AnswersTrue == Spec => []AnswersAreTrue
<1>1. IInv => AnswersAreTrue
  <2> SUFFICES ASSUME IInv PROVE AnswersAreTrue
    OBVIOUS
  <2>1. ASSUME NEW s \in Submissions, pc[s] = "answered"
        PROVE  /\ oplog[reference[s]].from = s
               /\ \A template \in Templates : Email(template, s) \in emails
    <3>1. InOrder(s)
      BY DEF IInv, RequestsInOrder
    <3>2. oplog[reference[s]] = Inserted("organisation", orgId[s], 0, s)
      BY <2>1, <3>1 DEF InOrder
    <3>3. Email("user", s) \in emails /\ Email("regulator", s) \in emails
      BY <2>1, <3>1 DEF InOrder
    <3>4. Inserted("organisation", orgId[s], 0, s).from = s
      BY DEF Inserted
    <3> QED BY <3>2, <3>3, <3>4 DEF Templates
  <2>2. ASSUME NEW a \in Applicants, NEW stored,
               stored = Cardinality({k \in DOMAIN oplog : oplog[k].from = a})
        PROVE  CASE status[a] = 201 -> stored = 1
                 [] status[a] = 500 -> stored <= 1
                 [] OTHER -> stored = 0
    <3>1. status[a] \in {0, 201, 400, 422, 500} /\ OnceStored(a)
      BY DEF IInv, TypeOK
    <3>2. /\ status[a] = 201 => stored = 1
          /\ stored \in {0, 1}
          /\ status[a] \notin {201, 500} => stored = 0
      BY <2>2, <3>1, OnceIsCounted
    <3>3. stored <= 1
      BY <3>2
    <3> QED BY <3>1, <3>2, <3>3
  <2> QED BY <2>1, <2>2 DEF AnswersAreTrue
<1> QED BY <1>1, InductiveInvariant, PTL
================================================================================
