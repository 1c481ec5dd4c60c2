CONSTANTS
  BufferSize = 18
  BufferAllocated = 18
  PacketLength = 3
  PacketLengthMax = 3
  InjectionSize = 4
  AltHalfSize = 4
  AltAllocated = 4
  InputThreshold = 9
  Resolution24 = TRUE
  Fractional = FALSE
  NominalRun = 0
  FrameCount = 2
  HostLengths = {3}
  MaxAhead = 2
SPECIFICATION Spec
INVARIANTS
  NeverPlaysStale
PROPERTIES
  PaddingAlternates
