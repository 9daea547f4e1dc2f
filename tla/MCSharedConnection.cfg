SPECIFICATION Spec
CONSTANTS
  MaxAttempts = 2
  MaxVersion = 3
  MaxCrashes = 1
INVARIANTS
  TypeOK
  ConfirmedIsApplied
  IdsFreshUnlessRefused
PROPERTIES
  AtomicUnlessMixed
