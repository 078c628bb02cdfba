SPECIFICATION LiveSpec
CONSTANTS
  Channels = 2
  Sizes <- MCSizes
  BUF_SIZE = 2
  Allocator = allocator
  OK = ok
  NO_MEM = nomem
  NoCode = nocode
  NULL = null
  MaxChanges = 4
  MaxFails = 1
INVARIANTS
  TypeOK
  OwnedOnce
  MemoryCounted
  ChannelsTogether
  NothingLeft
PROPERTIES
  PlaysOn
  Resized
