SPECIFICATION Spec
CONSTANTS
  MaxDatagrams = 1
  Hosts <- Peers
  SetupFails = FALSE
  ReceiveFails = FALSE
  SendFails = FALSE
INVARIANT ServerReachesClient
CHECK_DEADLOCK FALSE
