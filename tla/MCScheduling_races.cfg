CONSTANTS
    a1 = a1
    a2 = a2
    b1 = b1
    b2 = b2
    x1 = x1
    Requests = {r1}
    Kinds = {"schedule", "create", "update"}
    Components = {a1, a2, b1, b2, x1}
    TypeOf <- MCTypeOf
    ComponentTypes <- MCTypes
    Existing <- MCExisting
    TeamOwned = {b2}
    Forbidden = {b2}
    GivenIds <- MCGiven
    MaxChanges = 4
    AllowCrash = TRUE
SPECIFICATION Spec
INVARIANTS
    AnsweredIsComplete
    ChosenWasLatest
    PartialHasAReason
CHECK_DEADLOCK FALSE
