CONSTANTS
  BufferSize = 10
  BufferAllocated = 12
  PacketLength = 1
  PacketLengthMax = 2
  InjectionSize = 1
  AltHalfSize = 2
  AltAllocated = 1
  InputThreshold = 5
  Resolution24 = FALSE
  Fractional = TRUE
  NominalRun = 2
  FrameCount = 2
  HostLengths = {1, 2}
  MaxAhead = 2
SPECIFICATION Spec
INVARIANTS
  RingInjectionInBounds
  RestartStopsReader
