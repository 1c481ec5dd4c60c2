CONSTANTS
  FrameCount = 3
  PacketLengths = {1, 2, 3}
SPECIFICATION Spec
INVARIANTS
  StreamTypeOK
  FifoShape
PROPERTIES
  DeliversInOrder
