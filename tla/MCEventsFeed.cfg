SPECIFICATION FairSpec
CONSTANTS
  Consumers = {c1, c2}
  Jobs = {j1, j2}
  Limit = 2
  MaxEvents = 3
  MaxFaults = 1
INVARIANTS
  NoEventSkipped
PROPERTIES
  MovesBackOnlyOnOverlap
  EventuallyHandled
