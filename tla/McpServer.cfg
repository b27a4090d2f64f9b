CONSTANTS
  c1 = c1
  c2 = c2
  Absent = Absent
  Stale = Stale
  Clients <- Clients2
SPECIFICATION Spec
INVARIANTS
  ServerTypeOK
  SuccessMeansDone
  FailureMeansUndone
  StartsInOrder
PROPERTIES
  CallsAnswered
CHECK_DEADLOCK FALSE
