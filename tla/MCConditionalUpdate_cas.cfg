CONSTANTS
    Clients = {c1, c2, c3}
    Columns = {k1}
    Handlers = {"put_team", "put_user", "put_current_user", "put_identity", "delete_cas",
                "put_orm", "delete_orm"}
    Overlapping = {"put_team", "put_user", "put_current_user", "put_identity", "delete_cas"}
    PutStates = {"none", "active", "archived"}
    MaxVersion = 2
    Concurrency = 2
    AllowCrash = TRUE
SPECIFICATION Spec
INVARIANTS
    AckedIsApplied
PROPERTIES
    EtagIsHonoured
    ColumnsMoveForward
CHECK_DEADLOCK FALSE
