SPECIFICATION Spec
CONSTANTS
  MaxRestarts = 0
  CanFail = FALSE
  ReceiveFails = FALSE
  SetupFails = TRUE
  Loses = FALSE
  Strays = FALSE
INVARIANT RunsWithSockets
CHECK_DEADLOCK FALSE
