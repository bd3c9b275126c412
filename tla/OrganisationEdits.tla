--------------------------- MODULE OrganisationEdits ----------------------------
(***************************************************************************)
(* What becomes of an organisation after FormsParsing: the first start     *)
(* inserts it, admins PUT fragments of it, and every later start upserts   *)
(* the form again.  Organisations has the races between these and takes a  *)
(* document for a few parts; here nothing overlaps, and documents have the *)
(* fields that the schemas and the merge tell apart.                       *)
(***************************************************************************)
EXTENDS FormsParsing

CONSTANTS
    Payloads,   \* payloads of PUT /v1/organisations/{id}
    Edited,     \* the submissions whose organisation admins edit
    MaxPuts,    \* bound: PUTs that are answered, per organisation
    MaxStarts   \* bound: starts of the service

\* version is what the admin sends, relative to the version that is stored.
ASSUME PayloadsAssumption ==
    \A p \in Payloads :
        /\ p.version \in {None, "stored", "older"} /\ p.isObject \in BOOLEAN
        /\ IsFragment(p.fragment) /\ (p.isObject \/ p.fragment = <<>>)
ASSUME EditsAssumption == Edited \subseteq Submissions /\ {MaxPuts, MaxStarts} \subseteq Nat

VARIABLES
    document,  \* the document of `epr-organisations`, or NoDocument
    asked,     \* the updates that the last write was given
    edited,    \* whether a PUT stored anything but statuses
    reply,     \* HTTP status of the last PUT, 0 before the first
    puts,
    starts

store == <<document, asked, edited, reply, puts, starts>>

NoDocument == [version |-> 0]
Lists == {"registrations", "accreditations"}

EditsInit ==
    /\ Init
    /\ document = NoDocument
    /\ asked = <<>>
    /\ edited = FALSE
    /\ reply = 0
    /\ puts = 0
    /\ starts = 0
--------------------------------------------------------------------------------
(* Reading and writing paths *)

At(content, path) ==
    [q \in {SubSeq(p, Len(path) + 1, Len(p)) : p \in {r \in DOMAIN content : Len(r) > Len(path) /\ IsPrefix(path, r)}}
        |-> content[path \o q]]
Without(content, names) == [p \in {q \in DOMAIN content : q[1] \notin names} |-> content[p]]
Named(content) == {p[1] : p \in DOMAIN content}

\* The elements of a list, in order.
ItemsOf(content, list) ==
    LET given == InOrder({i \in DOMAIN Elements : <<list, Elements[i]>> \in DOMAIN content})
    IN  [k \in DOMAIN given |-> At(content, <<list, Elements[given[k]]>>)]
IdOf(item) == item[<<"id">>]
StatusOf(content) == IF <<"status">> \in DOMAIN content THEN content[<<"status">>] ELSE None
--------------------------------------------------------------------------------
(* helpers.js *)

InitialStatusHistory == <<"created">>
StatusHistoryWithChanges(update, statuses) ==
    IF StatusOf(update) \in {None, Last(statuses)} THEN statuses ELSE Append(statuses, StatusOf(update))

\* {...existing, ...update}: a field that is given replaces the whole field.
Spread(existing, update) == Together({update, Without(existing, Named(update))})

\* A Map of the updates by id: of two with one id the last one counts, in the place
\* of the first.  Those that no existing item has are added.
MergeItems(existing, updates) ==
    LET ids == {IdOf(existing[k].content) : k \in DOMAIN existing}
        last(id) == updates[Max({k \in DOMAIN updates : IdOf(updates[k]) = id})]
        isNew(k) == IdOf(updates[k]) \notin ids /\ \A j \in 1..(k - 1) : IdOf(updates[j]) # IdOf(updates[k])
        new == InOrder({k \in DOMAIN updates : isNew(k)})
    IN  [k \in DOMAIN existing |->
            LET item == existing[k]
                id == IdOf(item.content)
            IN  IF \A j \in DOMAIN updates : IdOf(updates[j]) # id THEN item
                ELSE [content |-> Spread(item.content, last(id)),
                      statuses |-> StatusHistoryWithChanges(last(id), item.statuses)]]
        \o [k \in DOMAIN new |->
              [content |-> last(IdOf(updates[new[k]])), statuses |-> InitialStatusHistory]]

\* Mutant: the list of the fragment takes the place of the stored one.
MergeSubcollectionReplacing(existing, fragment, list) ==
    IF <<list>> \in DOMAIN fragment THEN MergeItems(<<>>, ItemsOf(fragment, list)) ELSE existing

MergeSubcollection(existing, fragment, list) ==
    IF <<list>> \in DOMAIN fragment THEN MergeItems(existing, ItemsOf(fragment, list)) ELSE existing

\* What update() writes.
Updated(existing, updates) ==
    [version |-> existing.version + 1,
     content |-> Spread(existing.content, Without(updates, Lists)),
     statuses |-> StatusHistoryWithChanges(updates, existing.statuses),
     items |-> [list \in Lists |-> MergeSubcollection(existing.items[list], updates, list)]]

\* removeNullUndefined makes an object without properties of any Date, so that two
\* dates always compare equal.
Dates == {"formSubmissionTime", "validFrom", "validTo"}
Undated(content) == [p \in DOMAIN content |-> IF Last(p) \in Dates THEN "date" ELSE content[p]]

\* normalizeForComparison of a stored document.
Normalize(existing) ==
    [content |-> Undated(Without(existing.content, {"version", "schemaVersion", "status"})),
     items |-> [list \in Lists |->
        [k \in DOMAIN existing.items[list] |-> Undated(Without(existing.items[list][k].content, {"status"}))]]]

HasChanges(existing, incoming) ==
    Normalize(existing) # [content |-> Undated(incoming), items |-> [list \in Lists |-> <<>>]]
--------------------------------------------------------------------------------
(* mongodb.js *)

\* What performInsert stores; forms have no registrations or accreditations.
InsertedDocument(incoming) ==
    [version |-> 1, content |-> incoming, statuses |-> InitialStatusHistory,
     items |-> [list \in Lists |-> <<>>]]

Listed(list, items) ==
    Itemised(<<list>>, [k \in DOMAIN items |-> Together({
        Field(<<"status">>, Last(items[k].statuses)), Field(<<"statusHistory">>, "stored"),
        Without(items[k].content, {"status", "statusHistory"})})])

\* mapDocumentWithCurrentStatuses: what GET answers with.
Shown(d) ==
    LET set == {"status", "statusHistory", "version", "schemaVersion"}
    IN  Together({
            Field(<<"status">>, Last(d.statuses)), Keys(set \ {"status"}, "stored"), Without(d.content, set),
            Listed("registrations", d.items["registrations"]), Listed("accreditations", d.items["accreditations"])})
--------------------------------------------------------------------------------
(* A start of the service, and PUTs *)

\* performUpsert.
Upsert ==
    /\ status = "accepted" /\ starts < MaxStarts
    /\ starts' = starts + 1
    /\ LET validated == StripUnknown(OrganisationInsertSchema, ContentOf(organisation))
       IN  /\ asked' = Without(validated, {"id", "version", "schemaVersion"})
           /\ document' = IF document = NoDocument THEN InsertedDocument(validated)
                          ELSE IF HasChanges(document, validated) THEN Updated(document, asked')
                          ELSE document
    /\ UNCHANGED <<vars, edited, reply, puts>>

\* The handler of the PUT takes out what may not be updated.
Sanitised(fragment) == Without(fragment, {"version", "id", "schemaVersion"})

WithoutStatuses(content) ==
    [p \in {q \in DOMAIN content : Last(q) \notin {"status", "statusHistory"}} |-> content[p]]

Refuse(code) == reply' = code /\ asked' = <<>> /\ UNCHANGED <<document, edited>>

Put(payload) ==
    LET fragment == Sanitised(payload.fragment)
        updates == StripUnknown(OrganisationUpdateSchema, fragment)
    IN  /\ submission \in Edited /\ status = "accepted" /\ puts < MaxPuts
        /\ puts' = puts + 1
        /\ IF payload.version = None \/ ~payload.isObject THEN Refuse(400)
           ELSE IF ~IsUpdate(fragment) THEN Refuse(422)
           ELSE IF document = NoDocument THEN Refuse(404)
           ELSE IF payload.version = "older" THEN Refuse(409)
           ELSE /\ reply' = 200
                /\ asked' = updates
                /\ document' = Updated(document, updates)
                /\ \A list \in Lists : Len(document'.items[list]) <= Len(Elements)
                /\ edited' = (edited \/ WithoutStatuses(Shown(document')) # WithoutStatuses(Shown(document)))
        /\ UNCHANGED <<vars, starts>>

Parse(A) == A /\ UNCHANGED store

EditsNext ==
    \/ Parse(ExtractPage) \/ Parse(Flatten) \/ Parse(Transform) \/ Parse(Validate)
    \/ Upsert
    \/ \E payload \in Payloads : Put(payload)

EditsSpec == EditsInit /\ [][EditsNext]_<<vars, store>>
--------------------------------------------------------------------------------
(* Correctness *)

Distinct(items) == \A j, k \in DOMAIN items : IdOf(items[j].content) = IdOf(items[k].content) => j = k
\* Updates are fragments and are merged field by field; still, after any sequence of
\* them, a stored organisation has everything that an insert must have, its statuses
\* are those of the schema, and no registration or accreditation is in it twice
\* (organisationUpdateSchema, mergeItemsWithUpdates).
StoredStaysValid ==
    document # NoDocument =>
        /\ IsInsert(WithoutStatuses(Shown(document)))
        /\ \A list \in Lists : Distinct(document.items[list])

\* An admin may GET an organisation and PUT it back as it is: what a GET shows, with
\* statuses, histories and versions that an update may not set, is accepted and
\* changes nothing but the version (schema.js, put-by-id.js, helpers.js).
PutBackChangesNothing ==
    document # NoDocument =>
        LET fragment == Sanitised(Shown(document))
        IN  /\ IsUpdate(fragment)
            /\ Shown(Updated(document, StripUnknown(OrganisationUpdateSchema, fragment))) = Shown(document)

Asks(updates, list, id) == {u \in Range(ItemsOf(updates, list)) : IdOf(u) = id}

\* A write leaves alone what it was not asked to change: fields, items and fields of
\* items that the fragment or the form does not name, and all entries of status
\* histories.  A later start writes nothing if no more than statuses was edited since
\* the first (update, mergeItemsWithUpdates, statusHistoryWithChanges, hasChanges).
OnlyWhatIsAskedChanges ==
    [][document # NoDocument =>
        /\ \A p \in DOMAIN document.content \cup DOMAIN document'.content :
              \/ p[1] \in Named(asked') \cup {"status"}
              \/ /\ p \in DOMAIN document.content \cap DOMAIN document'.content
                 /\ document.content[p] = document'.content[p]
        /\ IsPrefix(document.statuses, document'.statuses)
        /\ \A list \in Lists : \A k \in DOMAIN document.items[list] :
              LET old == document.items[list][k]
                  new == document'.items[list][k]
              IN  /\ k \in DOMAIN document'.items[list]
                  /\ IsPrefix(old.statuses, new.statuses)
                  /\ Asks(asked', list, IdOf(old.content)) = {} => new = old
                  /\ \A p \in DOMAIN old.content :
                        \/ p \in DOMAIN new.content /\ new.content[p] = old.content[p]
                        \/ \E u \in Asks(asked', list, IdOf(old.content)) : p[1] \in Named(u)
        /\ ~edited /\ puts' = puts => document' = document]_<<vars, store>>
--------------------------------------------------------------------------------
(* The invariant of the proofs *)

IsList(s) == Len(s) \in Nat /\ s = [k \in 1..Len(s) |-> s[k]]
SoundHistory(statuses) == IsList(statuses) /\ statuses # <<>> /\ Bad \notin Range(statuses)

\* Nothing but what an insert takes is at this place of a document, or a status.
FieldsKnown(place, content) ==
    \A p \in DOMAIN content :
        LET field == place \o Generic(p)
        IN  /\ p # <<>> /\ field \in DOMAIN OrganisationInsertSchema /\ content[p] # Bad
            /\ OrganisationInsertSchema[field] = "forbidden" => p = <<"status">>

\* An object of the content has what an insert demands of it.
Complete(place, content, p) ==
    LET object == place \o Generic(p)
    IN  /\ \A d \in InsertDemands : Front(d) = object => Append(p, Last(d)) \in DOMAIN content
        /\ object \in InsertUsers => {Append(p, "role"), Append(p, "title")} \cap DOMAIN content # {}

Whole(place, content) ==
    FieldsKnown(place, content) /\ \A p \in DOMAIN content \cup {<<>>} : Complete(place, content, p)

SoundItem(list, item) == SoundHistory(item.statuses) /\ Whole(<<list, "*">>, item.content)

SoundDocument(d) ==
    /\ SoundHistory(d.statuses)
    /\ Whole(<<>>, d.content) /\ Named(d.content) \cap Lists = {}
    /\ DOMAIN d.items = Lists
    /\ \A list \in Lists :
          LET items == d.items[list]
          IN  /\ IsList(items) /\ Len(items) <= Len(Elements)
              /\ \A k \in 1..Len(items) : SoundItem(list, items[k])
              /\ Distinct(items)

DocumentSound == document # NoDocument => SoundDocument(document)

\* What is upserted is what an insert takes, and stored until somebody edits it.
FormStored ==
    LET validated == StripUnknown(OrganisationInsertSchema, ContentOf(organisation))
    IN  /\ status = "accepted" =>
              Valid(organisation) /\ DOMAIN organisation.partnership.partners \subseteq DOMAIN Elements
        /\ document # NoDocument => status = "accepted" /\ (edited \/ ~HasChanges(document, validated))

EditsInv == IInv /\ DocumentSound /\ FormStored
================================================================================
