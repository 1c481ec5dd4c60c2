CONSTANTS
  BufferSize = 8
  BufferAllocated = 9
  PacketLength = 2
  FrameCount = 3
SPECIFICATION Spec
INVARIANT
  HalfBufferFirst
