CONSTANTS
  MaxCommands = 2
  MaxFrames = 2
  MaxPresses = 2
SPECIFICATION Spec
INVARIANTS
  TypeOK
  CancelStaysInCommand
  NoLeftovers
  CleanAfterFailure
PROPERTY PromptReturns
CHECK_DEADLOCK FALSE
