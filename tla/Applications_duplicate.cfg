SPECIFICATION Spec
CONSTANTS
    Submissions = {s1, s2}
    Applicants = {}
    Instances = {i1}
    Start = 5
    MaxInt = 20
    Nobody = Nobody
    OrganisationPayloads <- MCOrganisationPayloads
    TypedPayloads <- MCTypedPayloads
    ReadFrom = "primary"
    MaxLag = 2
    AtOnce = 2
    MaxPosts = 2
SYMMETRY Symmetry
INVARIANT OrgIdsUnique
CHECK_DEADLOCK FALSE
