SPECIFICATION Spec
CONSTANTS
  r1 = r1
  r2 = r2
  r3 = r3
  k1 = k1
  t1 = t1
  t2 = t2
  Requests <- MCRequests
  ApiKeys <- MCApiKeys
  TaskIds <- MCTaskIds
  Slug <- MCSlug
  MaxCrashes = 1
INVARIANTS
  TypeOK
  CreatedIsDurable
  HalfTaskNeedsCrash
PROPERTIES
  ImplementsRegistry
