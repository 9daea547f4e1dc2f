SPECIFICATION Spec
CONSTANTS
  Tasks = {t1}
  NoTask = NoTask
  SeedStates = {"reviewing"}
  SeedRoles = {"coordinator"}
  Clients = {c1}
  Keys = {}
  NoKey = NoKey
  SubmitMaxAttempts = 1
  BatchLimit = 10
  MaxVersion = 6
  MaxAttempts = 1
  MaxCrashes = 0
INVARIANTS
  VersionIdentifiesState
  RowsConsistent
PROPERTIES
  ImplementsLifecycle
