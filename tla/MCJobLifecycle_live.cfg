CONSTANTS
    None = None
    Requests = {r1, r2, r3}
    Kinds = {"post", "put", "delete", "purge"}
    Statuses = {"running", "failure"}
    PutStates = {None, "archived"}
    Concurrency = 2
    AllowCrash = FALSE
SPECIFICATION FairSpec
CHECK_DEADLOCK FALSE
INVARIANTS
    NotifiedOnceOneByOne
    MessageMatchesEvent
    QuietAgreement
PROPERTIES
    FinalIsAnnounced
