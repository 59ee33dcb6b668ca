CONSTANTS
    None = None
    Files = {f1, f2}
    MaxJob = 2
    Junit = {f1, f2}
    Admins = {a1, a2}
    JobDeletions = {"delete_job", "archive_job"}
    Concurrency = 2
    AllowCrash = TRUE
SPECIFICATION Spec
SYMMETRY FileStoreSymmetry
INVARIANTS
    TypeOK
    ActiveHasContent
    PurgeIsComplete
    CreatedJunitHasResults
    NoLeak
