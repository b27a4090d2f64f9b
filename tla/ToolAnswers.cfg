CONSTANTS
  MaxFile = 4
  MaxOutput = 2
  Sample = 5
  MaxList = 3
  UsualList = 2
  NotGiven = NotGiven
  Root <- RootNames
  Walks <- RootWalks
  PageSize = 3
  Bound = 1
  TopSize = 2
  MaxLine = 4
  Null = Null
  MaxTimeout = 604800
  NotSet = NotSet
  Threshold = 4
  NaN = NaN
  MaxFrames = 3
  MaxText = 6
  MaxRows = 4
  NoAnswer = NoAnswer
  Unnamed = Unnamed
  Unread = Unread
SPECIFICATION Spec
INVARIANTS
  OutputKept
  HostIsHonest
  RowsAreKept
  MonitorIsHonest
  BreaksAreShown
  GateKept
  DoorIsKept
CHECK_DEADLOCK FALSE
