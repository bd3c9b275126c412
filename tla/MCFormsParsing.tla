---------------------------- MODULE MCFormsParsing ----------------------------
(* Submissions for OrganisationEdits: every way through the organisation form, with   *)
(* two waste types, two sets of nations and addresses of three to six parts, and *)
(* a few of them spoilt in one place.                                            *)
EXTENDS OrganisationEdits

MCElements == <<"1", "2", "3">>

Text(l) == <<l>>
C(l) == [name |-> l, label |-> l]
Page(title, labels) ==
    [title |-> title, repeater |-> NoRepeater, components |-> [i \in DOMAIN labels |-> C(labels[i])]]
Repeat(title, name, labels) == [Page(title, labels) EXCEPT !.repeater = name]
\* A page whose first label occurs on another page, under another component.
Own(page, name) == [page EXCEPT !.components[1].name = name]

Who(k) == LET p == ContactPages[k] IN <<p.fullName, p.email, p.phone, p.title>>

OrganisationForm == <<
    Page("Guidance", <<>>), Page("Operational", <<"Currently operational?">>),
    Page("Nations", <<"Nations with sites">>),
    Own(Page("Companies House", <<"Organisation name", "Trading name", "Companies House number",
                                  "Registered office address">>), "CH name"),
    Own(Page("Non-UK company", <<"Organisation name", "Address line 1", "Address line 2", "Town or city",
                                 "Country", "State, province or region", "Postcode or equivalent">>), "Non-UK name"),
    Own(Page("Company", <<"Organisation name", "Organisation address">>), "UK name"),
    Page("Partnership", <<"Are you a partnership?">>),
    Repeat("Names of partners in your limited partnership", "ltd", <<"", "Partner names", "Partner type">>),
    Page("Type of organisation", <<"Organisation type">>),
    Repeat("Names of partners in your partnership", "general", <<"Partner name", "Type of partner">>),
    Page("Contact", <<"Submitter name", "Submitter email address", "Submitter telephone number",
                      "Submitter job title">>),
    Page("Uninc", <<ContactPages[2].asked>>), Page("Uninc who", Who(2)),
    Page("Sole", <<ContactPages[3].asked>>), Page("Sole who", Who(3)),
    Page("NonUK", <<ContactPages[1].asked>>), Page("NonUK who", Who(1)) >>

\* Answers that are texts, to all questions with these component names.
Texts(names) == [l \in names |-> Text(l)]
\* An optional question: left out, sent blank, or answered.
Optional(l) == {<<>>, l :> Blank, l :> Text(l)}

Base == Texts({"Submitter name", "Submitter email address", "Submitter telephone number", "Submitter job title"})
Activities ==
    {"Currently operational?" :> <<"Exporter">>}
    \cup {("Currently operational?" :> <<"Reprocessor and exporter">>) @@ ("Nations with sites" :> n) :
            n \in {<<"England">>, <<"Wales", "Northern Ireland">>}}

Entered ==
    {[NoAddress EXCEPT !.line1 = l1, !.line2 = l2, !.town = <<"t">>, !.county = c, !.postcode = <<"p">>] :
        l1 \in {<<"a">>, <<"a", "b">>}, l2 \in {Undefined, <<"l">>}, c \in {Undefined, <<"c">>}}

\* Whether somebody else is in charge, as asked on page k.
Charge(k) == {ContactPages[k].asked :> <<"true">>,
              (ContactPages[k].asked :> <<"false">>) @@ Texts(Range(Who(k)))}

Way(m, r, e) == [main |-> m, repeaters |-> r, entered |-> e]
LtdPartners(types) == "ltd" :> [k \in DOMAIN types |-> ("Partner names" :> Text("x")) @@ ("Partner type" :> types[k])]
General == "general" :> << ("Partner name" :> Text("x")) @@ ("Type of partner" :> <<"Corporate partner">>) >>

CompaniesHouse ==
    {Way(t @@ Texts({"CH name", "Companies House number"}) @@ ("Registered office address" :> Joined(e))
            @@ ("Are you a partnership?" :> <<p[1]>>), p[2], e) :
        t \in Optional("Trading name"), e \in Entered,
        p \in {<<"No", <<>>>>, <<"A limited liability partnership", <<>>>>,
               <<"A limited partnership", LtdPartners(<<<<"Company partner">>>>)>>,
               <<"A limited partnership", LtdPartners(<<<<"Individual partner">>, <<"Company partner">>>>)>>}}
UkCompany ==
    {Way(Texts({"UK name"}) @@ ("Organisation address" :> Joined(e)) @@ c[1], c[2], e) :
        e \in Entered,
        c \in {<<("Organisation type" :> <<"Unincorporated association">>) @@ m, <<>>>> : m \in Charge(2)}
              \cup {<<("Organisation type" :> <<"An individual">>) @@ m, <<>>>> : m \in Charge(3)}
              \cup {<<"Organisation type" :> <<"A partnership under the Partnership Act 1890">>, General>>}}
NonUkCompany ==
    {Way(Texts({"Non-UK name", "Address line 1", "Town or city", "Country"}) @@ l2 @@ r @@ m, <<>>, NoAddress) :
        l2 \in Optional("Address line 2"), r \in Optional("State, province or region"), m \in Charge(1)}

Followed ==
    {[pages |-> OrganisationForm, main |-> a @@ Base @@ w.main, repeaters |-> w.repeaters,
      entered |-> w.entered, agency |-> "EA", timestamp |-> "date", followed |-> TRUE] :
        a \in Activities, w \in CompaniesHouse \cup UkCompany \cup NonUkCompany}

\* What may be wrong with a submission.
Extended(s, page) == [s EXCEPT !.followed = FALSE, !.pages = Append(@, page)]
Spoil(s) == {
    Extended(s, Page("Guidance", <<>>)),
    Extended(s, Own(Page("Again", <<"Submitter job title">>), "Submitter name")),
    Extended(s, Page("Twice", <<"Submitter name", "Submitter name">>)),
    Extended(Extended(s, Own(Page("T1", <<"Timescale (Aluminium)">>), "Submitter name")),
             Own(Page("T2", <<"Timescale (Aluminium)">>), "Submitter job title")),
    [s EXCEPT !.followed = FALSE, !.main = ("Submitter job title" :> Blank) @@ @],
    [s EXCEPT !.followed = FALSE, !.main = ("Currently operational?" :> <<"None of the above">>) @@ @],
    [s EXCEPT !.followed = FALSE, !.main = ("Nations with sites" :> <<"England", "France">>) @@ @],
    [s EXCEPT !.followed = FALSE, !.main = Texts({"CH name", "Non-UK name"}) @@ @],
    [s EXCEPT !.followed = FALSE, !.repeaters = LtdPartners(<<<<"Company partner">>, Undefined>>)],
    [s EXCEPT !.followed = FALSE, !.repeaters = LtdPartners(<<<<"A trust">>>>)],
    [s EXCEPT !.followed = FALSE, !.agency = "XX"], [s EXCEPT !.followed = FALSE, !.agency = None],
    [s EXCEPT !.followed = FALSE, !.timestamp = "invalid"], [s EXCEPT !.followed = FALSE, !.timestamp = None] }

MCSubmissions ==
    Followed \cup UNION {Spoil(s) : s \in {f \in Followed :
        "Nations with sites" \notin DOMAIN f.main /\ "Trading name" \notin DOMAIN f.main
        /\ Len(Joined(f.entered)) \in {0, 3}}}
--------------------------------------------------------------------------------
(* What admins PUT *)

Fields(path, names) == [p \in {Append(path, n) : n \in names} |-> "edit"]
ItemAt(list, k, id) ==
    (<<list>> :> "object") @@ (<<list, Elements[k]>> :> "object") @@ (<<list, Elements[k], "id">> :> id)
    @@ Fields(<<list, Elements[k]>>,
              {"formSubmissionTime", "submittedToRegulator", "material", "wasteProcessingType"})
R1 == ItemAt("registrations", 1, "r1")
Within(names) == <<"registrations", "1">> \o names
WithSite == R1 @@ (Within(<<"site">>) :> "object") @@ (Within(<<"site", "gridReference">>) :> "edit")
Status(path, value) == Append(path, "status") :> value
Officer == <<"registrations", "1", "approvedPersons", "1">>
WithOfficer(fields) ==
    R1 @@ (Front(Officer) :> "object") @@ (Officer :> "object") @@ Fields(Officer, fields)

Fragments == {
    <<>>, Status(<<>>, "approved"), Status(<<>>, "deleted") @@ Status(<<>>, Bad),
    \* The organisation's own fields.
    Fields(<<>>, {"formSubmissionTime", "id", "version", "schemaVersion"}), Fields(<<>>, {"surprise"}),
    <<"companyDetails">> :> "object",
    (<<"companyDetails">> :> "object") @@ Fields(<<"companyDetails">>, {"name", "surprise"}),
    (<<"submitterContactDetails">> :> "object") @@ Fields(<<"submitterContactDetails">>, {"fullName", "email", "phone"}),
    (<<"managementContactDetails">> :> "object")
        @@ Fields(<<"managementContactDetails">>, {"fullName", "email", "phone", "role"}),
    <<"formSubmissionTime">> :> Bad,
    \* Registrations and accreditations.
    <<"registrations">> :> "object", <<"registrations">> :> Bad,
    R1, R1 @@ Status(<<"registrations", "1">>, "approved"), R1 @@ Status(<<"registrations", "1">>, Bad),
    R1 @@ (Within(<<"validFrom">>) :> "edit") @@ (Within(<<"surprise">>) :> "edit"),
    R1 @@ ItemAt("registrations", 2, "r1") @@ (<<"registrations", "2", "validTo">> :> "edit"),
    R1 @@ ItemAt("registrations", 2, "r2"), ItemAt("registrations", 1, "r2"),
    ItemAt("accreditations", 1, "a1") @@ Status(<<"accreditations", "1">>, "rejected"),
    R1 @@ ItemAt("accreditations", 1, "a1") @@ (Within(<<"accreditationId">>) :> "edit"),
    WithSite, WithSite @@ (Within(<<"site", "address">>) :> "object"),
    WithOfficer({"fullName", "email", "phone"}), WithOfficer({"fullName", "email", "phone", "title"}) }
    \cup {[p \in DOMAIN R1 \ {Within(<<f>>)} |-> R1[p]] : f \in {"id", "material", "formSubmissionTime"}}

MCPayloads ==
    {[version |-> "stored", isObject |-> TRUE, fragment |-> f] : f \in Fragments}
    \cup {[version |-> v, isObject |-> TRUE, fragment |-> R1] : v \in {None, "older"}}
    \cup {[version |-> "stored", isObject |-> FALSE, fragment |-> <<>>]}

\* An organisation with a partnership, and one without.
MCEdited ==
    {CHOOSE s \in Followed : s.repeaters # <<>>, CHOOSE s \in Followed : s.repeaters = <<>>}
================================================================================
