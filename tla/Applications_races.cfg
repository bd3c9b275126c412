SPECIFICATION Spec
CONSTANTS
    Submissions = {s1, s2}
    Applicants = {a1}
    Instances = {i1, i2}
    Start = 5
    MaxInt = 20
    Nobody = Nobody
    OrganisationPayloads <- MCOrganisationPayloads
    TypedPayloads <- MCTypedPayloads
    ReadFrom = "secondary"
    MaxLag = 4
    AtOnce = 2
    MaxPosts = 2
SYMMETRY Symmetry
INVARIANTS TypeOK EmailsTellWhatIsStored AnswersAreTrue EmailedNumbersAreAccepted ServesASetUpDatabase
CHECK_DEADLOCK FALSE
