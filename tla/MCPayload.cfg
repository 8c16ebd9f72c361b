SPECIFICATION Spec
CONSTANTS
  Frame <- OneFrame
  MAX_ETH_LEN = 86
  Rounds = 1
  Name <- MCNames
  ShortName = {"", "br"}
  LongName = {"averylonginterfacename"}
  Argv <- NoOptions
  MaxFrames <- TwoToServer
  LinkFaults = FALSE
  Rand <- BthOffsets
  RandByte <- MCRandByte
CHECK_DEADLOCK FALSE
INVARIANTS
  PayloadIgnored
