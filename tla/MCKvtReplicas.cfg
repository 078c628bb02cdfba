SPECIFICATION LiveSpec
CONSTANTS
  Params <- MCParams
  Values <- MCValues
  Huge <- MCHuge
  None = None
  Capacity = 1
  MaxPuts = 3
  MaxSessions = 2
INVARIANTS
  TypeOK
  Agreement
PROPERTIES
  Settles
