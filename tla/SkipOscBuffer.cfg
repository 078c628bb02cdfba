SPECIFICATION Spec
CONSTANTS
  Cap = 5
  Sizes <- MCSizes
  MaxId = 3
  Limit = 2
  Overlap = FALSE
  WrapSkips = TRUE
PROPERTY
  DeliveredInOrder
