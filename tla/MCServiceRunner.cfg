SPECIFICATION FairSpec
CONSTANTS
  RetrySec = 2
  AlertAfter = 2
  MaxAttempts = 3
  MaxDelay = 3
INVARIANTS
  TypeOK
  ReadinessTellsTheTruth
  RequestsFindConnection
PROPERTIES
  RetriesBackOff
  RegistrationRecovers
  StopCompletes
