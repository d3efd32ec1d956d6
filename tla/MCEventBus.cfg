SPECIFICATION FairBusSpec
CONSTANTS
  e1 = e1
  e2 = e2
  t1 = t1
  s1 = s1
  Key = {k1, k2}
  Entity = {e1}
  Plain = {p1}
  Thunk = {t1}
  Seat = {}
  entity_of <- MCEntityOf
  kMaxCascadeDepth = 2
  MaxDeferred = 2
INVARIANTS StructureSettled HeardInOrder
PROPERTIES RegistrationsKept QueuedChangesApplied
CHECK_DEADLOCK FALSE
