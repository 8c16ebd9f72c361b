SPECIFICATION FairPrograms
CONSTANTS
  Frame <- RdmaFrames
  MAX_ETH_LEN = 86
  Rounds = 1
  Name <- MCNames
  ShortName = {"", "br"}
  LongName = {"averylonginterfacename"}
  Argv <- MCArgv
  MaxFrames <- TwoOne
  LinkFaults = FALSE
  Rand <- TruncatedOffsets
  RandByte <- OneByte
CHECK_DEADLOCK FALSE
INVARIANTS
  RunsBetweenItsDevices
  FramesAreCounted
  ResidueIsOwn
PROPERTIES
  FramesAreDelivered ImplementsOwnTunnel
