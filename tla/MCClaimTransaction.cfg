SPECIFICATION Spec
CONSTANTS
  MaxAttempts = 3
  MaxVersion = 3
  MaxCrashes = 0
INVARIANT DispatchIsWhole
