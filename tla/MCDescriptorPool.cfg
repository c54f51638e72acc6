SPECIFICATION Spec
CONSTANTS
  Files <- SomeFiles
  MaxFiles = 2
  MaxDepth = 3
  LastNumber = 9
  Slack = 2
INVARIANTS ReferencesResolve RefusesExactlyInvalid PoolMatchesFiles
PROPERTIES BoundStay RegistrationEnds
CHECK_DEADLOCK FALSE
