SPECIFICATION FairSpec
CONSTANTS
  Frame <- MixedFrames
  MAX_ETH_LEN = 86
  Rounds = 1
  Name <- MCNames
  ShortName = {"", "br"}
  LongName = {"averylonginterfacename"}
  Argv <- SwappedDevices
  MaxFrames <- TwoOne
  LinkFaults = TRUE
  Rand <- OpcodeOffsets
  RandByte <- OneByte
CHECK_DEADLOCK FALSE
INVARIANTS
  CrashIsOwnDevice
PROPERTIES
  ImplementsTunnel
  LosesOnlyWhenDown
  FramesAreTaken
