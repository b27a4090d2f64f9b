CONSTANTS
  c1 = c1
  c2 = c2
  i1 = i1
  i2 = i2
  Free = Free
  NoId = NoId
  Callers <- Callers2
  Ids <- Ids2
  MaxMore = 0
  Patience = 1
SPECIFICATION Safe
INVARIANT OwnReplies
CHECK_DEADLOCK FALSE
