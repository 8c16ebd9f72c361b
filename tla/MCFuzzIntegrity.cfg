SPECIFICATION Spec
CONSTANTS
  Frame <- AllFrames
  MAX_ETH_LEN = 88
  Rounds = 1
  Name <- MCNames
  ShortName = {"", "br"}
  LongName = {"averylonginterfacename"}
  Argv <- NoOptions
  MaxFrames <- TwoToServer
  LinkFaults = FALSE
  Rand <- BthOffsets
  RandByte <- MCRandByte
CHECK_DEADLOCK FALSE
INVARIANTS
  TypeOK
  HeldIntact
  ResidueConfined
  MutationConfined
