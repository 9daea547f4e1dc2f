SPECIFICATION Spec
CONSTANTS
  Tasks = {t1}
  NoTask = NoTask
  SeedStates = {}
  SeedRoles = {}
  Clients = {}
  Keys = {}
  NoKey = NoKey
  SubmitMaxAttempts = 2
  BatchLimit = 10
  MaxVersion = 5
  MaxAttempts = 3
  MaxCrashes = 0
PROPERTY ResultsVersionChecked
