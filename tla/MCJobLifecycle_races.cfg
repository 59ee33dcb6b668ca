CONSTANTS
    None = None
    Requests = {r1, r2, r3}
    Kinds = {"post", "put", "delete", "purge", "drop"}
    Statuses = {"running", "failure"}
    PutStates = {None}
    Concurrency = 3
    AllowCrash = TRUE
SPECIFICATION Spec
SYMMETRY RequestSymmetry
CHECK_DEADLOCK FALSE
INVARIANTS
    TypeOK
    StatusIsRecorded
    EventIsRecorded
    MessagesFollowEvents
    AnnouncedOnlyAfterFinish
PROPERTIES
    ArchivedIsForGood
