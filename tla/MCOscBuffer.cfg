SPECIFICATION Spec
CONSTANTS
  Cap = 5
  Sizes <- MCSizes
  MaxId = 3
  Limit = 2
  Overlap = FALSE
  WrapSkips = FALSE
INVARIANTS
  TypeOK
  FramesSpelled
  SizeAccounted
PROPERTY
  ImplementsPacketQueue
