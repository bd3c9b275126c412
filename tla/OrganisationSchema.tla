--------------------------- MODULE OrganisationSchema ---------------------------
(***************************************************************************)
(* The Joi schemas of organisations (repositories/organisations/schema.js) *)
(* and what validation.js does with them.                                  *)
(*                                                                         *)
(* A document, or a fragment of one, is the function from the paths it     *)
(* gives to what it has there: Bad for a value that the schema of its      *)
(* field refuses, any other string for a value that it takes.  Elements of *)
(* lists are named by Elements.  A schema is a function from paths to how  *)
(* the field has to be present; "*" stands for any element.                *)
(***************************************************************************)
EXTENDS Sequences, SequencesExt

CONSTANT Elements   \* bound: no list here is longer

Bad == "bad"

\* What any of the parts has; no two have different values at a path.
Together(parts) ==
    [p \in UNION {DOMAIN s : s \in parts} |-> (CHOOSE s \in parts : p \in DOMAIN s)[p]]

Keys(names, presence) == [p \in {<<n>> : n \in names} |-> presence]
Under(path, schema) ==
    [p \in {path \o q : q \in DOMAIN schema} |-> schema[SubSeq(p, Len(path) + 1, Len(p))]]
Object(name, presence, schema) == Together({Keys({name}, presence), Under(<<name>>, schema)})
ListOf(name, presence, schema) == Object(name, presence, Object("*", "optional", schema))

AddressSchema ==
    Keys({"line1", "line2", "town", "county", "country", "postcode", "region", "fullAddress"}, "optional")
UserSchema == Together({Keys({"fullName", "email", "phone"}, "required"), Keys({"role", "title"}, "optional")})

CompanyDetailsSchema == Together({
    Keys({"name"}, "required"), Keys({"tradingName", "registrationNumber"}, "optional"),
    Object("registeredAddress", "optional", AddressSchema), Object("address", "optional", AddressSchema)})
PartnershipSchema == Together({
    Keys({"type"}, "required"), ListOf("partners", "optional", Keys({"name", "type"}, "required"))})

WasteManagementPermitSchema == Together({
    Keys({"type"}, "required"), Keys({"permitNumber"}, "optional"),
    ListOf("exemptions", "optional", Keys({"reference", "exemptionCode"}, "required")),
    ListOf("authorisedMaterials", "optional",
           Together({Keys({"material"}, "required"), Keys({"authorisedWeight", "timeScale"}, "optional")}))})
SiteSchema == Together({
    Object("address", "required", AddressSchema), Keys({"gridReference"}, "optional"),
    ListOf("siteCapacity", "optional",
           Together({Keys({"material"}, "required"),
                     Keys({"siteCapacityWeight", "siteCapacityTimescale"}, "optional")}))})
YearlyMetricsSchema == Together({
    Keys({"year"}, "required"),
    Object("input", "optional",
           Keys({"type", "ukPackagingWaste", "nonUkPackagingWaste", "nonPackagingWaste"}, "optional")),
    Object("rawMaterialInputs", "optional", Keys({"material", "tonnage"}, "optional")),
    Object("output", "optional", Keys({"type", "sentToAnotherSite", "contaminants", "processLoss"}, "optional")),
    ListOf("productsMadeFromRecycling", "optional", Keys({"name", "weight"}, "optional"))})
IssuanceSchema(plan) == Together({
    Keys({"tonnageBand"}, "optional"), ListOf("signatories", "optional", UserSchema),
    ListOf(plan, "optional",
           Keys({"percentIncomeSpent", "usageDescription", "detailedExplanation"}, "optional"))})
FormFileUploadSchema == Together({
    Keys({"defraFormUploadedFileId", "defraFormUserDownloadLink"}, "required"), Keys({"s3Uri"}, "optional")})

\* What registrations and accreditations have in common.
ItemSchema == Together({
    Keys({"id", "formSubmissionTime", "submittedToRegulator", "material", "wasteProcessingType"}, "required"),
    Keys({"status"}, "forbidden"), Keys({"validFrom", "validTo", "orgName"}, "optional"),
    Object("site", "optional", SiteSchema), Object("noticeAddress", "optional", AddressSchema),
    Object("submitterContactDetails", "optional", UserSchema),
    ListOf("samplingInspectionPlanFileUploads", "optional", FormFileUploadSchema),
    ListOf("orsFileUploads", "optional", FormFileUploadSchema)})
RegistrationSchema == Together({
    ItemSchema,
    Keys({"registrationNumber", "accreditationId", "recyclingProcess", "wasteRegistrationNumber",
          "suppliers", "exportPorts", "plantEquipmentDetails"}, "optional"),
    ListOf("wasteManagementPermits", "optional", WasteManagementPermitSchema),
    ListOf("approvedPersons", "optional", UserSchema),
    ListOf("yearlyMetrics", "optional", YearlyMetricsSchema)})
AccreditationSchema == Together({
    ItemSchema, Keys({"accreditationNumber", "businessPlan"}, "optional"),
    Object("prnIssuance", "optional", IssuanceSchema("prnIncomeBusinessPlan")),
    Object("pernIssuance", "optional", IssuanceSchema("pernIncomeBusinessPlan"))})

OrganisationInsertSchema == Together({
    Keys({"id", "orgId", "wasteProcessingTypes", "formSubmissionTime", "submittedToRegulator"}, "required"),
    Keys({"status"}, "forbidden"),
    Keys({"schemaVersion", "version", "reprocessingNations", "businessType"}, "optional"),
    Object("companyDetails", "optional", CompanyDetailsSchema),
    Object("partnership", "optional", PartnershipSchema),
    Object("submitterContactDetails", "required", UserSchema),
    Object("managementContactDetails", "optional", UserSchema),
    ListOf("registrations", "optional", RegistrationSchema),
    ListOf("accreditations", "optional", AccreditationSchema)})

NonUpdatableFields == {"id", "version", "schemaVersion"}

\* Mutant: the schemas of the items are not forked.
ForkOnlyTheOrganisation(schema) ==
    [p \in DOMAIN schema |->
        IF Len(p) > 1 THEN schema[p]
        ELSE IF p[1] \in NonUpdatableFields THEN "forbidden" ELSE "optional"]

\* Mutant: an item, too, may be a fragment with no more than its id.
ForkEverything(schema) ==
    [p \in DOMAIN schema |->
        IF p[1] \in NonUpdatableFields THEN "forbidden" ELSE IF Last(p) = "id" THEN "required" ELSE "optional"]

\* The fork makes the organisation's own fields optional, and of the items' fields
\* only the status.
Fork(schema) ==
    [p \in DOMAIN schema |->
        IF Len(p) > 1 THEN (IF Len(p) = 3 /\ p[3] = "status" THEN "optional" ELSE schema[p])
        ELSE IF p[1] \in NonUpdatableFields THEN "forbidden" ELSE "optional"]

OrganisationUpdateSchema == Fork(OrganisationInsertSchema)

\* Elements have names of their own.
ASSUME ElementsAssumption ==
    /\ Elements \in Seq(STRING) /\ IsInjective(Elements) /\ "statusHistory" \notin Range(Elements)
    /\ \A p \in DOMAIN OrganisationInsertSchema : Range(p) \cap Range(Elements) = {}

\* A fragment of a document has the objects that its fields are in.
IsFragment(content) ==
    \A p \in DOMAIN content :
        p \in Seq(STRING) /\ p # <<>> /\ \A n \in 1..Len(p) : SubSeq(p, 1, n) \in DOMAIN content
--------------------------------------------------------------------------------
(* validation.js *)

Generic(p) == [i \in DOMAIN p |-> IF p[i] \in Range(Elements) THEN "*" ELSE p[i]]

\* The fields that have to be there where the object they are part of is.
Demands(schema) == {p \in DOMAIN schema : schema[p] = "required"}
\* .or('role', 'title'): objects with these two fields are users.
Users(schema) == {Front(p) : p \in {q \in DOMAIN schema : Last(q) = "role"}}

Accepts(schema, demands, users, content) ==
    /\ \A p \in DOMAIN content :
        Generic(p) \in DOMAIN schema => content[p] # Bad /\ schema[Generic(p)] # "forbidden"
    /\ \A p \in DOMAIN content \cup {<<>>} :
        /\ \A d \in demands : Front(d) = Generic(p) => Append(p, Last(d)) \in DOMAIN content
        /\ Generic(p) \in users => {Append(p, "role"), Append(p, "title")} \cap DOMAIN content # {}

InsertDemands == Demands(OrganisationInsertSchema)
InsertUsers == Users(OrganisationInsertSchema)
UpdateDemands == Demands(OrganisationUpdateSchema)
UpdateUsers == Users(OrganisationUpdateSchema)

IsInsert(content) == Accepts(OrganisationInsertSchema, InsertDemands, InsertUsers, content)
IsUpdate(content) == Accepts(OrganisationUpdateSchema, UpdateDemands, UpdateUsers, content)

\* stripUnknown: what the schema does not know is dropped, and no error.
StripUnknown(schema, content) ==
    [p \in {q \in DOMAIN content : Generic(q) \in DOMAIN schema} |-> content[p]]
================================================================================
