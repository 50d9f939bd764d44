SPECIFICATION FairSpec
CONSTANTS
    Submissions = {1, 2}
    Forms <- MCForms
    Clusters = {"pg"}
    Projects = {"p1", "p2"}
    Branches = {"main", "feature"}
    Secrets = {"hello", "other"}
    None = None
INVARIANTS
    TypeOK
    CredentialsSavedFirst
    NeonObjectsOrdered
    OneSubmissionSucceeds
    SuccessIsServed
    CredentialsAgree
PROPERTIES
    KeysKept
    EverySubmissionEnds
CHECK_DEADLOCK FALSE
