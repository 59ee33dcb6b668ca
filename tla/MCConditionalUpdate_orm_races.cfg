CONSTANTS
    Clients = {c1, c2}
    Columns = {k1}
    Handlers = {"put_orm", "delete_orm"}
    Overlapping = {"put_orm", "delete_orm"}
    PutStates = {"none", "active", "archived"}
    MaxVersion = 2
    Concurrency = 2
    AllowCrash = FALSE
SPECIFICATION Spec
INVARIANTS
    ChangedWhatWasRead
CHECK_DEADLOCK FALSE
