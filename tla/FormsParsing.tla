------------------------------ MODULE FormsParsing ------------------------------
(***************************************************************************)
(* How the migration makes an organisation of a submitted form:            *)
(* parseOrgSubmission of transform-organisation-data.js, and the schema    *)
(* that the upsert holds its result against.  Malformed of Organisations   *)
(* stands for the submissions that fail here.                              *)
(*                                                                         *)
(* A value is the sequence of its parts between commas, without the spaces *)
(* around them; Undefined is the value that is not there.                  *)
(***************************************************************************)
EXTENDS Integers, Sequences, SequencesExt, OrganisationSchema

CONSTANTS
    Submissions,      \* the submissions to parse
    KnownDuplicates   \* labels that begin with one of KNOWN_DUPLICATE_PREFIXES

\* The numbers of a finite set from the least to the greatest.
InOrder(S) == [k \in 1..Cardinality(S) |-> CHOOSE i \in S : Cardinality({j \in S : j <= i}) = k]

Undefined == <<>>
NoPart == ""   \* between two commas
Blank == <<NoPart>>
NoTitle == "undefined"
NoRepeater == ""
None == "none"

AddressFields == {"line1", "line2", "town", "county", "country", "postcode", "region", "fullAddress"}
NoAddress == [f \in AddressFields |-> Undefined]

\* entered is what the applicant put in the boxes of a UK address, which the code
\* never sees; followed tells the submissions made along the conditions of the
\* form that the service has in production.
Submission(s) ==
    /\ DOMAIN s = {"pages", "main", "repeaters", "timestamp", "agency", "entered", "followed"}
    /\ s.pages \in Seq([title : STRING, repeater : STRING, components : Seq([name : STRING, label : STRING])])
    /\ s.timestamp \in {None, "invalid", "date"}

ASSUME SubmissionsAssumption == \A s \in Submissions : Submission(s)

VARIABLES
    submission,    \* the submission (never changes)
    answers,       \* extractAnswers: of every page read so far its labels and values
    flat,          \* answersByShortDescription
    organisation,  \* the result of parseOrgSubmission, or NoOrganisation
    status

vars == <<submission, answers, flat, organisation, status>>

NoOrganisation == [id |-> None]
pages == submission.pages
main == submission.main
--------------------------------------------------------------------------------
(* The form engine (external): the boxes of a UK address become one answer *)

Boxes == {"line1", "line2", "town", "county", "postcode"}
Joined(values) == values.line1 \o values.line2 \o values.town \o values.county \o values.postcode
UkAddressLabels == {"Organisation address", "Registered office address"}

\* A UK address is entered once, with what its boxes require and nothing blank.
EnteredAddress(s) ==
    LET answered == {c \in UNION {Range(s.pages[i].components) : i \in DOMAIN s.pages} :
                        c.label \in UkAddressLabels /\ c.name \in DOMAIN s.main}
    IN  /\ DOMAIN s.entered = AddressFields
        /\ \A f \in Boxes : s.entered[f] \in Seq(STRING) /\ NoPart \notin Range(s.entered[f])
        /\ \A f \in {"line1", "town", "postcode"} : s.entered[f] # Undefined
        /\ answered # {} /\ \A c \in answered : s.main[c.name] = Joined(s.entered)

ASSUME EnteredAssumption == \A s \in Submissions : s.entered = NoAddress \/ EnteredAddress(s)
--------------------------------------------------------------------------------
(* form-data-mapper.js *)

WasteProcessingTypesMapping ==
    [answer \in {"Reprocessor and exporter", "Reprocessor", "Exporter"} |->
        CASE answer = "Reprocessor" -> {"reprocessor"} [] answer = "Exporter" -> {"exporter"}
          [] OTHER -> {"reprocessor", "exporter"}]
NationMapping ==
    ("England" :> "england") @@ ("Scotland" :> "scotland")
    @@ ("Wales" :> "wales") @@ ("Northern Ireland" :> "northern_ireland")
BusinessTypeMapping ==
    ("An individual" :> "individual") @@ ("Unincorporated association" :> "unincorporated")
    @@ ("A partnership under the Partnership Act 1890" :> "partnership")
RegulatorMapping == ("EA" :> "ea") @@ ("NRW" :> "nrw") @@ ("SEPA" :> "sepa") @@ ("NIEA" :> "niea")
PartnerTypeMapping ==
    ("Corporate partner" :> "corporate") @@ ("Company partner" :> "company")
    @@ ("Individual partner" :> "individual")
PartnershipTypeMapping ==
    ("A limited partnership" :> "ltd") @@ ("A limited liability partnership" :> "ltd_liability")

\* Each map...() throws for a value that is not in its mapping.
IsIn(mapping, value) == Len(value) = 1 /\ value[1] \in DOMAIN mapping
IsGiven(value) == value \notin {Undefined, Blank}
Maps(mapping, value) == IsGiven(value) => IsIn(mapping, value)
MapOptional(mapping, value) == IF IsGiven(value) THEN mapping[value[1]] ELSE None

\* Mutant: the answer No is a type like the others.
PartnershipAnswered(value) == IsGiven(value)

IsPartnership(value) == IsGiven(value) /\ value # <<"No">>
--------------------------------------------------------------------------------
(* parse-forms-data.js *)

\* Mutant: an answer of spaces only is an answer.
GivenAtAll(component) == component.label # "" /\ component.name \in DOMAIN main

Given(component) ==
    /\ component.label # "" /\ component.name \in DOMAIN main
    /\ IsGiven(main[component.name])

Answered(page) == {c \in Range(page.components) : Given(c)}
LabelsOf(page) == {c.label : c \in Answered(page)}
AnswersOf(page) ==
    [l \in LabelsOf(page) |-> main[(CHOOSE c \in Answered(page) : c.label = l).name]]

\* Two answered questions of a page have the same label.
Repeats(page) ==
    \E i, j \in DOMAIN page.components :
        /\ i # j /\ page.components[i].label = page.components[j].label
        /\ Given(page.components[i]) /\ Given(page.components[j])

TitlesOf(extracted) == {extracted[i].title : i \in DOMAIN extracted}
PagesWith(extracted, label) == {i \in DOMAIN extracted : label \in DOMAIN extracted[i].entries}
AllLabels(extracted) == UNION {DOMAIN extracted[i].entries : i \in DOMAIN extracted}

\* Mutant: any label may occur on several pages.
NothingDuplicated(extracted) == {}

Duplicates(extracted) ==
    {l \in AllLabels(extracted) : Cardinality(PagesWith(extracted, l)) > 1} \ KnownDuplicates

\* Of a label that may occur on several pages the last value stays.
Flattened(extracted) ==
    [l \in AllLabels(extracted) |-> extracted[Max(PagesWith(extracted, l))].entries[l]]

Answer(label) == IF label \in DOMAIN flat THEN flat[label] ELSE Undefined

FindFirstValue(labels) ==
    LET found == {i \in DOMAIN labels : IsGiven(Answer(labels[i]))}
    IN  IF found = {} THEN Undefined ELSE Answer(labels[Min(found)])

\* extractRepeaters: one field of one item.
ItemValue(page, item, label) ==
    LET named == {c \in Range(page.components) : c.label = label /\ c.name \in DOMAIN item}
    IN  IF named = {} THEN Undefined ELSE item[(CHOOSE c \in named : TRUE).name]

\* extractRepeaters, with its fieldMapping {nameLabel: 'name', typeLabel: 'type'}.
ExtractPartners(title, nameLabel, typeLabel) ==
    LET repeating == {i \in DOMAIN pages : pages[i].title = title /\ pages[i].repeater # NoRepeater}
        page == pages[Min(repeating)]
        items == IF page.repeater \in DOMAIN submission.repeaters
                 THEN submission.repeaters[page.repeater] ELSE <<>>
    IN  IF repeating = {} THEN <<>>
        ELSE [k \in DOMAIN items |-> [name |-> ItemValue(page, items[k], nameLabel),
                                      type |-> ItemValue(page, items[k], typeLabel)]]
--------------------------------------------------------------------------------
(* parse-address.js *)

\* Mutant: two parts between line1 and postcode are taken for line2 and town.
PlaceMiddleGuessing(address, middle, value) ==
    CASE Len(middle) = 1 -> [address EXCEPT !.town = <<middle[1]>>]
      [] Len(middle) = 2 -> [address EXCEPT !.line2 = <<middle[1]>>, !.town = <<middle[2]>>]
      [] OTHER -> [address EXCEPT !.fullAddress = value]

PlaceMiddle(address, middle, value) ==
    CASE Len(middle) = 1 -> [address EXCEPT !.town = <<middle[1]>>]
      [] Len(middle) = 3 -> [address EXCEPT !.line2 = <<middle[1]>>, !.town = <<middle[2]>>,
                                            !.county = <<middle[3]>>]
      [] OTHER -> [address EXCEPT !.fullAddress = value]

ParseUkAddress(value) ==
    LET places == InOrder({i \in DOMAIN value : value[i] # NoPart})
        parts == [k \in DOMAIN places |-> value[places[k]]]
        n == Len(parts)
        uk == [NoAddress EXCEPT !.country = <<"UK">>]
    IN  IF ~IsGiven(value) THEN NoAddress
        ELSE IF n < 3 THEN [uk EXCEPT !.fullAddress = value]
        ELSE PlaceMiddle([uk EXCEPT !.line1 = <<parts[1]>>, !.postcode = <<parts[n]>>],
                         SubSeq(parts, 2, n - 1), value)
--------------------------------------------------------------------------------
(* transform-organisation-data.js *)

GetAddress ==
    IF IsGiven(Answer("Organisation address")) THEN ParseUkAddress(Answer("Organisation address"))
    ELSE [NoAddress EXCEPT
            !.line1 = Answer("Address line 1"), !.line2 = Answer("Address line 2"),
            !.town = Answer("Town or city"), !.country = Answer("Country"),
            !.postcode = Answer("Postcode or equivalent"),
            !.region = Answer("State, province or region")]

CompanyDetails ==
    [name |-> Answer("Organisation name"), tradingName |-> Answer("Trading name"),
     registrationNumber |-> Answer("Companies House number"),
     registeredAddress |-> ParseUkAddress(Answer("Registered office address")),
     address |-> GetAddress]

ContactFields == {"fullName", "email", "phone", "title"}
NoContact == [f \in ContactFields |-> Undefined]

SubmitterDetails ==
    [fullName |-> Answer("Submitter name"), email |-> Answer("Submitter email address"),
     phone |-> Answer("Submitter telephone number"), title |-> Answer("Submitter job title")]

\* The three pages that may ask for another contact, in the order in which they are
\* searched.
ContactPages == <<
    [asked |-> "Non-UK - manage or control?", fullName |-> "Non-UK - manage or control name",
     email |-> "Non-UK - manage or control email", phone |-> "Non-UK - manage or control phone",
     title |-> "Non-UK - manage or control job title"],
    [asked |-> "Unincorporated association - manage or control?",
     fullName |-> "Unincorporated association - manage or control name",
     email |-> "Unincorporated association - manage or control email",
     phone |-> "Unincorporated association - manage or control phone",
     title |-> "Unincorporated association - manage or control job title"],
    [asked |-> "Sole trader - in charge?", fullName |-> "Sole trader - in charge name",
     email |-> "Sole trader - in charge email", phone |-> "Sole trader - in charge phone",
     title |-> "Sole trader - in charge job title"] >>
Column(f) == [i \in DOMAIN ContactPages |-> ContactPages[i][f]]

HasManagementContact == FindFirstValue(Column("asked")) = <<"false">>
ManagementContactDetails ==
    IF HasManagementContact THEN [f \in ContactFields |-> FindFirstValue(Column(f))] ELSE NoContact

\* FORM_PAGES has no title for the page of the general partners, so that no page of a
\* form is theirs.
GeneralPartnersTitle == NoTitle
RawPartners ==
    ExtractPartners("Names of partners in your limited partnership", "Partner names", "Partner type")
    \o ExtractPartners(GeneralPartnersTitle, "Partner name", "Type of partner")

Partnership ==
    [type |-> IF IsPartnership(Answer("Are you a partnership?"))
              THEN PartnershipTypeMapping[Answer("Are you a partnership?")[1]] ELSE None,
     partners |-> [k \in DOMAIN RawPartners |->
        [name |-> RawPartners[k].name, type |-> MapOptional(PartnerTypeMapping, RawPartners[k].type)]]]

\* extractTimestamp: a date, null for an invalid one, or nothing.
FormSubmissionTime == submission.timestamp

\* extractAgencyFromDefinitionName; agency is what stands in brackets at the end of
\* the name of the form.
SubmittedToRegulator ==
    IF submission.agency = None THEN None ELSE RegulatorMapping[submission.agency]

\* Nothing in parseOrgSubmission throws.
Parses ==
    /\ IsIn(WasteProcessingTypesMapping, Answer("Currently operational?"))
    /\ Range(Answer("Nations with sites")) \subseteq DOMAIN NationMapping
    /\ Maps(BusinessTypeMapping, Answer("Organisation type"))
    /\ IsPartnership(Answer("Are you a partnership?")) =>
            IsIn(PartnershipTypeMapping, Answer("Are you a partnership?"))
    /\ \A p \in Range(RawPartners) : Maps(PartnerTypeMapping, p.type)
    /\ submission.agency # None => submission.agency \in DOMAIN RegulatorMapping

ParseOrgSubmission ==
    [id |-> "id",
     wasteProcessingTypes |-> WasteProcessingTypesMapping[Answer("Currently operational?")[1]],
     reprocessingNations |-> [i \in DOMAIN Answer("Nations with sites") |->
                                NationMapping[Answer("Nations with sites")[i]]],
     businessType |-> MapOptional(BusinessTypeMapping, Answer("Organisation type")),
     companyDetails |-> CompanyDetails,
     submitterContactDetails |-> SubmitterDetails,
     hasManagementContact |-> HasManagementContact,
     managementContactDetails |-> ManagementContactDetails,
     formSubmissionTime |-> FormSubmissionTime,
     submittedToRegulator |-> SubmittedToRegulator,
     partnership |-> Partnership]
--------------------------------------------------------------------------------
(* The upsert is handed the result without its undefined values *)

Field(path, value) == [p \in {path} |-> value]
Leaf(path, value) == IF value = Undefined THEN <<>> ELSE Field(path, IF IsGiven(value) THEN "form" ELSE Bad)
Known(path, value) == IF value = None THEN <<>> ELSE Field(path, "form")
Leaves(path, record) ==
    IF \A f \in DOMAIN record : record[f] = Undefined THEN <<>>
    ELSE Together({Field(path, "object")} \cup {Leaf(Append(path, f), record[f]) : f \in DOMAIN record})

\* A list with its elements.
Itemised(path, contents) ==
    LET n == Len(path) + 1
        place(p) == CHOOSE k \in DOMAIN contents : Elements[k] = p[n]
    IN  [p \in {path} \cup {Append(path, Elements[k]) : k \in DOMAIN contents}
                    \cup UNION {{Append(path, Elements[k]) \o q : q \in DOMAIN contents[k]} : k \in DOMAIN contents}
            |-> IF Len(p) <= n THEN "object" ELSE contents[place(p)][SubSeq(p, n + 1, Len(p))]]

Partner(p) == Together({
    Leaf(<<"name">>, p.name),
    IF p.type = None THEN <<>>
    ELSE Field(<<"type">>, IF p.type \in {"company", "individual"} THEN "form" ELSE Bad)})

PartnershipContent(p) ==
    IF p.type = None /\ p.partners = <<>> THEN <<>>
    ELSE Together({
        Field(<<"partnership">>, "object"), Known(<<"partnership", "type">>, p.type),
        Itemised(<<"partnership", "partners">>, [k \in DOMAIN p.partners |-> Partner(p.partners[k])])})

\* removeUndefinedValues.
ContentOf(o) == Together({
    Keys({"id", "orgId", "wasteProcessingTypes", "reprocessingNations"}, "form"),
    Known(<<"businessType">>, o.businessType),
    Field(<<"companyDetails">>, "object"),
    Leaf(<<"companyDetails", "name">>, o.companyDetails.name),
    Leaf(<<"companyDetails", "tradingName">>, o.companyDetails.tradingName),
    Leaf(<<"companyDetails", "registrationNumber">>, o.companyDetails.registrationNumber),
    Leaves(<<"companyDetails", "registeredAddress">>, o.companyDetails.registeredAddress),
    Leaves(<<"companyDetails", "address">>, o.companyDetails.address),
    Field(<<"submitterContactDetails">>, "object"),
    Leaves(<<"submitterContactDetails">>, o.submitterContactDetails),
    IF o.hasManagementContact THEN Field(<<"managementContactDetails">>, "object") ELSE <<>>,
    IF o.hasManagementContact THEN Leaves(<<"managementContactDetails">>, o.managementContactDetails) ELSE <<>>,
    CASE o.formSubmissionTime = None -> <<>>
      [] o.formSubmissionTime = "invalid" -> Field(<<"formSubmissionTime">>, Bad)
      [] OTHER -> Field(<<"formSubmissionTime">>, "form"),
    Known(<<"submittedToRegulator">>, o.submittedToRegulator),
    PartnershipContent(o.partnership)})

\* organisationInsertSchema, but for the formats of emails, numbers and ids.
Valid(o) == IsInsert(ContentOf(o))
--------------------------------------------------------------------------------
Init ==
    /\ submission \in Submissions
    /\ answers = <<>>
    /\ flat = <<>>
    /\ organisation = NoOrganisation
    /\ status = "extracting"

\* One turn of the reduce in extractAnswers.
ExtractPage ==
    /\ status = "extracting" /\ Len(answers) < Len(pages)
    /\ LET page == pages[Len(answers) + 1]
       IN  IF page.title \in TitlesOf(answers) \/ Repeats(page)
           THEN status' = "failed" /\ UNCHANGED answers
           ELSE /\ answers' = Append(answers, [title |-> page.title, entries |-> AnswersOf(page)])
                /\ UNCHANGED status
    /\ UNCHANGED <<submission, flat, organisation>>

\* flattenAnswersByShortDesc
Flatten ==
    /\ status = "extracting" /\ Len(answers) = Len(pages)
    /\ IF Duplicates(answers) # {}
       THEN status' = "failed" /\ UNCHANGED flat
       ELSE status' = "flattened" /\ flat' = Flattened(answers)
    /\ UNCHANGED <<submission, answers, organisation>>

\* The rest of parseOrgSubmission.
Transform ==
    /\ status = "flattened"
    /\ IF Parses THEN organisation' = ParseOrgSubmission /\ status' = "parsed"
                 ELSE status' = "failed" /\ UNCHANGED organisation
    /\ UNCHANGED <<submission, answers, flat>>

\* validateOrganisationInsert, the first thing the upsert does.
Validate ==
    /\ status = "parsed"
    /\ DOMAIN organisation.partnership.partners \subseteq DOMAIN Elements
    /\ status' = IF Valid(organisation) THEN "accepted" ELSE "refused"
    /\ UNCHANGED <<submission, answers, flat, organisation>>

Next == ExtractPage \/ Flatten \/ Transform \/ Validate
Spec == Init /\ [][Next]_vars
--------------------------------------------------------------------------------
(* Correctness *)

IsParsed == status \in {"parsed", "accepted", "refused"}

\* The variables hold what parse-forms-data.js and transform-organisation-data.js
\* keep in them: no blank answers, and no organisation of a submission that failed.
TypeOK ==
    /\ status \in {"extracting", "flattened", "parsed", "accepted", "refused", "failed"}
    /\ TitlesOf(answers) \subseteq TitlesOf(pages)
    /\ Len(answers) = Cardinality(TitlesOf(answers))
    /\ \A l \in DOMAIN flat : IsGiven(flat[l]) /\ flat[l] \in Range(main)
    /\ (organisation # NoOrganisation) <=> IsParsed
    /\ IsParsed =>
        /\ organisation.wasteProcessingTypes \subseteq {"reprocessor", "exporter"}
        /\ Range(organisation.reprocessingNations) \subseteq Range(NationMapping)
        /\ organisation.businessType \in Range(BusinessTypeMapping) \cup {None}
        /\ organisation.submittedToRegulator \in Range(RegulatorMapping) \cup {None}
        /\ DOMAIN organisation.companyDetails.address = AddressFields
        /\ DOMAIN organisation.managementContactDetails = ContactFields

\* A form that was filled in along its conditions, with its optional questions
\* answered or not, is neither refused by the parser nor by the organisations' schema
\* (transform-organisation-data.js and schema.js have to agree on what is optional,
\* and the parser with the form on what may be repeated).
FollowedFormIsAccepted == submission.followed => status \notin {"failed", "refused"}

\* Of a submission that is parsed, however its pages share labels, no answer was
\* replaced by the answer to another question, save those that the code knows to be
\* repeated (extractAnswers and flattenAnswersByShortDesc).
AnswersAreKept ==
    IsParsed =>
        \A i \in DOMAIN pages : \A c \in Range(pages[i].components) :
            Given(c) => \/ Answer(c.label) = main[c.name]
                        \/ c.label \in KnownDuplicates

UkAddressOf(o) ==
    IF o.companyDetails.registeredAddress # NoAddress
    THEN o.companyDetails.registeredAddress ELSE o.companyDetails.address

\* A value with one part is a box without a comma.
WithoutCommas(values) == \A f \in Boxes : Len(values[f]) <= 1

\* parseUkAddress never sees the boxes, only their contents joined by commas: no part
\* of the address is lost, and a part that got a field of its own was entered in the
\* box of that name unless a comma was typed into a box.
AddressPartsKeepTheirPlace ==
    IsParsed /\ submission.entered # NoAddress =>
        LET a == UkAddressOf(organisation)
        IN  /\ Joined(submission.entered) \in {a.fullAddress, Joined(a)}
            /\ WithoutCommas(submission.entered) =>
                \A f \in Boxes : a[f] \in {Undefined, submission.entered[f]}
--------------------------------------------------------------------------------
(* The invariant of the proofs *)

\* What was extracted so far is what the first pages say, each under a title and
\* with labels of its own.
PagesExtracted ==
    /\ submission \in Submissions
    /\ \E n \in 0..Len(pages) :
          answers = [i \in 1..n |-> [title |-> pages[i].title, entries |-> AnswersOf(pages[i])]]
    /\ \A i \in DOMAIN answers : ~Repeats(pages[i])
    /\ \A i, j \in DOMAIN answers : answers[i].title = answers[j].title => i = j

\* The answers of all pages were flattened before anything is made of them.
AnswersFlattened ==
    /\ status = "extracting" => flat = <<>>
    /\ status \in {"flattened", "parsed", "accepted", "refused"} =>
          Len(answers) = Len(pages) /\ Duplicates(answers) = {} /\ flat = Flattened(answers)
    /\ flat \in {<<>>, Flattened(answers)}

\* An organisation is what parseOrgSubmission makes of answers that it does not throw on.
OrganisationMade ==
    IF IsParsed THEN Parses /\ organisation = ParseOrgSubmission ELSE organisation = NoOrganisation

IInv ==
    /\ status \in {"extracting", "flattened", "parsed", "accepted", "refused", "failed"}
    /\ PagesExtracted
    /\ AnswersFlattened
    /\ OrganisationMade
================================================================================
