----------------------------- MODULE MCApplications -----------------------------
(* Applications with symmetric forms and symmetric instances, and small sets of      *)
(* payloads: an organisation form with or without each field that is looked for,     *)
(* also twice, and an application form with each kind of answer to its two fields.   *)
EXTENDS Applications, TLC

Symmetry == Permutations(Submissions) \cup Permutations(Instances)

Name(kind) == Field("Organisation name", kind, 0)
Address(kind) == Field("Submitter email address", kind, 0)

MCOrganisationPayloads ==
    LET good == <<Address("text"), Name("text")>>
    IN  {Payload(object, regulator, good) : object \in BOOLEAN, regulator \in Regulators}
        \cup {Payload(TRUE, "known", <<Address(k), Name(l), Name(m)>>) :
                k, l, m \in {"absent", "empty", "text", "raw"}}
        \cup {Payload(TRUE, "known", good \o <<Field(label, kind, 0)>>) :
                label \in {"other", "none"}, kind \in {"absent", "text", "raw"}}

Numbers == {Start - 1, Start, MaxInt + 1}

MCTypedPayloads ==
    {Payload(object, "none", << Field("System Reference", k, 0), Field("Organisation ID", l, n) >>) :
        object \in BOOLEAN, k \in {"absent", "empty", "text", "id", "raw"},
        l \in {"absent", "empty", "text", "number", "raw"}, n \in Numbers}
================================================================================
