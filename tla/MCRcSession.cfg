SPECIFICATION Spec
CONSTANTS
  Variants = {"exchanged", "typed", "one_shot"}
  MaxMessages = 3
  NumCqe = 2
  CanFail = TRUE
INVARIANTS TypeOK PrintsWhatWasTyped OneShotExact ReceivesOneByOne NoneOlder
  CompletedIsPrinted NeverDeaf
PROPERTY PostedIsPrinted
CHECK_DEADLOCK FALSE
