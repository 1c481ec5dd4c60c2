CONSTANTS
  BufferSize = 6
  BufferAllocated = 6
  PacketLength = 1
  PacketLengthMax = 1
  InjectionSize = 1
  AltHalfSize = 1
  AltAllocated = 1
  InputThreshold = 3
  Resolution24 = FALSE
  Fractional = FALSE
  NominalRun = 0
  FrameCount = 3
  HostLengths = {1}
  MaxAhead = 2
SPECIFICATION StreamingSpec
INVARIANTS
  TypeOK
  NeverPlaysStale
  ReadAwaitsThreshold
  InjectionIntact
  StoppedWillRestart
  WriteInBounds
PROPERTIES
  RestartNeverLost
  UsesStream
  KeepsPlaying
  FallsSilent
