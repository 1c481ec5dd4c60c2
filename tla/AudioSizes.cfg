CONSTANTS
  Frequencies = {8000, 16000, 32000, 44100, 48000, 96000}
  Resolutions = {2, 3}
  Channels = 2
SPECIFICATION Spec
INVARIANTS
  PacketsFit
  KeepsPace
  MarginFits
  PlaybackAssumptions
