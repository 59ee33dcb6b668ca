SPECIFICATION Spec
CONSTANTS
  Components = {1, 2}
  Jobs = {j1}
  Origins <- MCOrigins
  Unfilled = {"name"}
  Releases <- MCReleases
  MaxSyncs = 3
  MaxDowngrades = 1
  MaxOptional = 1
INVARIANTS HeadIsDeclared FailureIsExplained AcceptedIsStored AnswerShowsRow
PROPERTIES NoJobLosesAComponent UpdateChangesOnlyNamed
CHECK_DEADLOCK FALSE
