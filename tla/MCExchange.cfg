SPECIFICATION Spec
CONSTANTS
  MaxRestarts = 0
  CanFail = FALSE
  ReceiveFails = FALSE
  SetupFails = FALSE
  Loses = FALSE
  Strays = FALSE
INVARIANT RolesLearnt
PROPERTIES ImplementsInfoExchange ExchangeStaysAlive ExchangeCompletes
CHECK_DEADLOCK FALSE
