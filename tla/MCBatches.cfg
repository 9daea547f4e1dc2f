SPECIFICATION Spec
CONSTANTS
  LastTask = 3
  BatchLimit = 2
  SubmitMaxAttempts = 2
PROPERTY PassedOverOnlyForRequeued
