SPECIFICATION Spec
CONSTANTS
  MaxDatagrams = 1
  Hosts <- PeersOthers
  SetupFails = TRUE
  ReceiveFails = TRUE
  SendFails = TRUE
INVARIANTS TypeOK BothServed
PROPERTIES EnoughStays Ends
CHECK_DEADLOCK FALSE
