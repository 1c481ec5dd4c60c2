CONSTANTS
  BufferSize = 4
  BufferAllocated = 4
  PacketLength = 1
  PacketLengthMax = 1
  InjectionSize = 1
  AltHalfSize = 1
  AltAllocated = 1
  InputThreshold = 2
  Resolution24 = FALSE
  Fractional = FALSE
  NominalRun = 0
  FrameCount = 2
  HostLengths = {1}
  MaxAhead = 1
SPECIFICATION Spec
INVARIANTS
  IgnoredPacketIsGone
