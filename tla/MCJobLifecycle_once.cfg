CONSTANTS
    None = None
    Requests = {r1, r2}
    Kinds = {"post"}
    Statuses = {"failure"}
    PutStates = {None}
    Concurrency = 2
    AllowCrash = FALSE
SPECIFICATION Spec
SYMMETRY RequestSymmetry
CHECK_DEADLOCK FALSE
INVARIANTS
    NotifiedOnce
