CONSTANTS
  c1 = c1
  c2 = c2
  i1 = i1
  Free = Free
  NoId = NoId
  Callers <- Callers2
  Ids <- Ids1
  Runner = c1
  MaxMore = 0
  Patience = 1
  MaxStops = 2
SPECIFICATION ScriptSpec
INVARIANTS
  ScriptTypeOK
  StopsBounded
  ExitFrees
PROPERTIES
  CallsReturn
  ScriptEnds
CHECK_DEADLOCK FALSE
