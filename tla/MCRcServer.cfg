SPECIFICATION Spec
CONSTANTS
  Variants = {"exchanged"}
  MaxMessages = 1
  NumCqe = 1
  CanFail = FALSE
INVARIANT ServerConnectsToClient
CHECK_DEADLOCK FALSE
