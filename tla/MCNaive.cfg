SPECIFICATION Spec
CONSTANTS
  BitRounds = 3
  ByteRounds = 2
  Offset = {0, 5, 11}
  Start = {0, 1, 2, 3}
  Fails = TRUE
CHECK_DEADLOCK FALSE
INVARIANTS TypeOK MutationsOfOneCycle HalvesAlike
PROPERTY StartsOver
