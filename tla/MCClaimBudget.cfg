SPECIFICATION TimedSpec
CONSTANTS
  Tasks = {t1}
  NoTask = NoTask
  SeedStates = {"queued"}
  SeedRoles = {"executor"}
  Clients = {}
  Keys = {}
  NoKey = NoKey
  SubmitMaxAttempts = 2
  BatchLimit = 10
  MaxVersion = 2
  MaxAttempts = 2
  MaxCrashes = 0
  ExecutingTimeout = 1
  ReviewingTimeout = 1
  BlockedAlertAfter = 1
  SubmitRetryDelay = 1
  StaleAfter = 1
  MaxCycle = 1
  Horizon = 3
PROPERTY BudgetEndsRetries
