CONSTANTS
  Streams = 2
  Volumes <- MCVolumes
  MuteValues = {0, 1}
SPECIFICATION ControlsSpec
INVARIANTS
  ControlsTypeOK
  AnsweredIsServed
  EndpointAvailable
  NothingLeaks
  ControlsServed
  CodecAgrees
PROPERTIES
  OnlyChangesAreHeard
