SPECIFICATION LiveSpec
CONSTANTS
  Channels = 2
  Sizes <- MCSizes
  BUF_SIZE = 2
  Allocator = allocator
  OK = ok
  NO_MEM = nomem
  NoCode = nocode
  NULL = null
  MaxChanges = 2
  MaxFails = 0
PROPERTY
  FreedWhenOff
