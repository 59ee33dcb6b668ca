CONSTANTS
    None = None
    p1 = p1
    p2 = p2
    tp1 = tp1
    tp2 = tp2
    t1 = t1
    t2 = t2
    r1 = r1
    c1 = c1
    cf1 = cf1
    l1 = l1
    u1 = u1
    u2 = u2
    m1 = m1
    m2 = m2
    j1 = j1
    j2 = j2
    f1 = f1
    Requests = {q1, q2}
    Seeds <- MCSeeds
    Unborn <- MCUnborn
    MaxChanges = 2
    MaxLinks = 1
SPECIFICATION Spec
SYMMETRY ArchiveSymmetry
INVARIANTS
    TypeOK
    NothingRunsOnWhatIsDeleted
PROPERTIES
    LiveJobsGoWithTheirTopic
    JobsPurgeLeavesFewObjects
    RefusedOnlyForTheLiving
CHECK_DEADLOCK FALSE
