SPECIFICATION BridgeSpec
CONSTANTS
  Tasks = {t1}
  NoTask = NoTask
  SeedStates = {"queued"}
  SeedRoles = {"executor"}
  Clients = {}
  Keys = {}
  NoKey = NoKey
  SubmitMaxAttempts = 2
  BatchLimit = 1
  MaxVersion = 4
  MaxAttempts = 2
  MaxCrashes = 1
INVARIANTS
  BridgeTypeOK
  AgentsAreHeard
  ConfigurationBlocksBeforeWork
PROPERTIES
  ImplementsSidecar
  AcceptedIsApplied
