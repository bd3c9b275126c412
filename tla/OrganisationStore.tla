--------------------------- MODULE OrganisationStore ---------------------------
(***************************************************************************)
(* What the organisations repository promises its callers: a document is a *)
(* register, an update changes one part of the current document in a       *)
(* single step and adds one to its version, and a PUT is applied once or   *)
(* refused without a trace.                                                *)
(* Source: repositories/organisations (mongodb.js, helpers.js).            *)
(***************************************************************************)
EXTENDS Integers, Sequences

CONSTANTS Orgs, Items, Top, Editors, NewStatuses, Form, Nobody

VARIABLES
    doc,      \* doc[o]: the current document, Nobody before it is inserted
    outcome,  \* outcome[e]: "open", "applied" or "refused"
    edit      \* edit[e]: what PUT e changes (never changes)

register == <<doc, outcome, edit>>

Parts == Items \cup {Top}

Init ==
    /\ doc = [o \in Orgs |-> Nobody]
    /\ outcome = [e \in Editors |-> "open"]
    /\ edit \in [Editors -> [org : Orgs, part : Parts, status : NewStatuses \cup {"none"}]]

\* A part that is there takes the status the writer asks for, if it is new.
NextStatuses(statuses, status) ==
    IF statuses = <<>> THEN <<"created">>
    ELSE IF status = "none" \/ status = statuses[Len(statuses)] THEN statuses
    ELSE Append(statuses, status)

\* A document with one part rewritten.
Rewritten(old, part, writer, status) ==
    [version |-> old.version + 1,
     content |-> [old.content EXCEPT ![part] = writer],
     statuses |-> [old.statuses EXCEPT ![part] = NextStatuses(@, status)]]

\* The current document moves on by one update of one part.
Update(o, part, writer, status) ==
    /\ doc[o] # Nobody
    /\ doc' = [doc EXCEPT ![o] = Rewritten(@, part, writer, status)]

Create(o) ==
    /\ doc[o] = Nobody
    /\ doc' = [doc EXCEPT ![o] =
        [version |-> 1,
         content |-> [p \in Parts |-> IF p = Top THEN Form ELSE Nobody],
         statuses |-> [p \in Parts |-> IF p = Top THEN <<"created">> ELSE <<>>]]]
    /\ UNCHANGED <<outcome, edit>>

Resubmit(o) == Update(o, Top, Form, "none") /\ UNCHANGED <<outcome, edit>>

Apply(e) ==
    /\ outcome[e] = "open"
    /\ Update(edit[e].org, edit[e].part, e, edit[e].status)
    /\ outcome' = [outcome EXCEPT ![e] = "applied"]
    /\ UNCHANGED edit

Refuse(e) ==
    /\ outcome[e] = "open"
    /\ outcome' = [outcome EXCEPT ![e] = "refused"]
    /\ UNCHANGED <<doc, edit>>

Next ==
    \/ \E o \in Orgs : Create(o) \/ Resubmit(o)
    \/ \E e \in Editors : Apply(e) \/ Refuse(e)

Spec == Init /\ [][Next]_register
================================================================================
