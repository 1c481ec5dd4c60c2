CONSTANTS
  BufferSize = 8
  BufferAllocated = 9
  PacketLength = 2
  FrameCount = 3
SPECIFICATION Spec
INVARIANTS
  TypeOK
  CopiesInBounds
  NeverStarves
PROPERTIES
  HostHearsInOrder
  UsesStream
  KeepsSending
