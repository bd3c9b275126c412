---------------------------- MODULE ApplicationForms ----------------------------
(***************************************************************************)
(* What the endpoints below /v1/apply take from a submitted form, what     *)
(* they refuse, and what the validators of the collections demand of a     *)
(* document.  A form is the sequence of its fields in the order of its     *)
(* pages; a field is its short description and what was entered in it.     *)
(***************************************************************************)
EXTENDS Integers, Sequences

CONSTANTS
    Start,         \* ORG_ID_START_NUMBER
    MaxInt         \* the largest number that BSON stores as an int

ASSUME StartAssumption == Start \in Nat \ {0} /\ MaxInt \in Nat /\ Start < MaxInt

Labels == {"Submitter email address", "Organisation name", "Organisation ID", "System Reference", "other", "none"}

\* What a field holds: nothing; "", a text that begins with no number, a text that
\* begins with the number n, the 24 hexadecimal digits of the document n; or
\* something that is not a string (as a number: n).
Strings == {"empty", "text", "number", "id"}
Kinds == Strings \cup {"absent", "raw"}
Field(label, kind, n) == [label |-> label, kind |-> kind, n |-> n]
Absent == Field("none", "absent", 0)
Fields == [label : Labels, kind : Kinds, n : Int]

\* The regulator in the brackets at the end of a form's name: there is none, or the
\* configuration does not have it, or it has its email address.
Regulators == {"none", "unknown", "known"}

\* A payload that is no object, or one with a regulator and the fields of all pages.
Payload(object, regulator, fields) == [object |-> object, regulator |-> regulator, fields |-> fields]

IsPayload(payload) ==
    /\ payload.object \in BOOLEAN /\ payload.regulator \in Regulators
    /\ payload.fields \in Seq(Fields)

\* The answers keep the places of their fields, so they keep their order.
ExtractAnswers(payload) ==
    [k \in {k \in DOMAIN payload.fields : payload.fields[k].kind # "absent"} |-> payload.fields[k]]

\* answers.find(...)?.value
FirstAnswer(answers, label) ==
    LET at == {k \in DOMAIN answers : answers[k].label = label}
    IN  IF at = {} THEN Absent ELSE answers[CHOOSE k \in at : \A l \in at : k <= l]

Truthy(answer) == ~ \/ answer.kind \in {"absent", "empty"}
                    \/ answer.kind = "raw" /\ answer.n = 0

ExtractEmail(answers) == FirstAnswer(answers, "Submitter email address")
ExtractOrgName(answers) == FirstAnswer(answers, "Organisation name")
ExtractReferenceNumber(answers) == FirstAnswer(answers, "System Reference")

\* parseInt, 0 for what is not a number: the caller treats the two alike.
ExtractOrgId(answers) ==
    LET answer == FirstAnswer(answers, "Organisation ID")
    IN  IF answer.kind \in {"number", "raw"} THEN answer.n ELSE 0

\* A regulator that the configuration does not have makes config.get throw, and
\* hapi answers an exception in a validation with 400.
OrganisationPayloadStatus(payload) ==
    LET answers == ExtractAnswers(payload)
    IN  CASE ~payload.object \/ payload.regulator = "unknown" -> 400
          [] payload.object /\ payload.regulator = "none" -> 422
          [] OTHER -> IF Truthy(ExtractEmail(answers)) /\ Truthy(ExtractOrgName(answers)) THEN 0 ELSE 422

\* Mutant: validation takes the first number that is given out for one that is too low.
ApplicationPayloadStatusStrict(payload) ==
    LET answers == ExtractAnswers(payload)
    IN  CASE ~payload.object -> 400
          [] payload.object /\ ExtractOrgId(answers) <= Start + 1 -> 422
          [] OTHER -> IF Truthy(ExtractReferenceNumber(answers)) THEN 0 ELSE 422

\* registrationAndAccreditationPayload; 0 goes on to the handler.
ApplicationPayloadStatus(payload) ==
    LET answers == ExtractAnswers(payload)
    IN  CASE ~payload.object -> 400
          [] payload.object /\ ExtractOrgId(answers) < Start -> 422
          [] OTHER -> IF Truthy(ExtractReferenceNumber(answers)) THEN 0 ELSE 422
--------------------------------------------------------------------------------
(* The validators of the collections: documents, as the factories make them *)

OrganisationDocument(payload, orgId) ==
    LET answers == ExtractAnswers(payload)
    IN  [orgId |-> orgId, orgName |-> ExtractOrgName(answers), email |-> ExtractEmail(answers), answers |-> answers]

\* registrationFactory and accreditationFactory make the same of a payload.
ApplicationDocument(payload) ==
    LET answers == ExtractAnswers(payload)
    IN  [orgId |-> ExtractOrgId(answers), referenceNumber |-> ExtractReferenceNumber(answers), answers |-> answers]

AnswersValid(answers) ==
    \A k \in DOMAIN answers : answers[k].label # "none" /\ answers[k].kind \in Strings

\* bsonType 'int': the driver sends a number that does not fit as a double.
OrgIdValid(orgId) == orgId \in Start .. MaxInt

ReferenceNumberValid(answer) == answer.kind = "id"

OrganisationValid(document) ==
    /\ AnswersValid(document.answers)
    /\ OrgIdValid(document.orgId)
    /\ document.orgName.kind \in Strings
    /\ document.email.kind \in Strings

RegistrationValid(document) ==
    /\ AnswersValid(document.answers)
    /\ OrgIdValid(document.orgId)
    /\ ReferenceNumberValid(document.referenceNumber)

\* A collection of its own, with the rules of the registrations.
AccreditationValid(document) ==
    /\ AnswersValid(document.answers)
    /\ OrgIdValid(document.orgId)
    /\ ReferenceNumberValid(document.referenceNumber)

ApplicationValid(collection, document) ==
    IF collection = "registration" THEN RegistrationValid(document) ELSE AccreditationValid(document)
================================================================================
