SPECIFICATION Spec
CONSTANTS
  MaxRestarts = 1
  CanFail = TRUE
  ReceiveFails = TRUE
  SetupFails = TRUE
  Loses = TRUE
  Strays = TRUE
INVARIANTS TypeOK LearnsFromRecorded RdmaCrosses
CHECK_DEADLOCK FALSE
