SPECIFICATION LiveSpec
CONSTANTS
  nChannels = 1
  Paths <- MCPaths
  Empty = ""
  Tracks <- MCTracks
  Cuts <- MCCuts
  CutAll = "all"
  FirstSource <- MCSource
  DefaultCut = "none"
  TRACKS_MAX = 2
  Wrappers <- MCWrappers
  NULL = NULL
  MaxRequests = 2
  MaxTurns = 1
  MaxFails = 1
INVARIANTS
  TypeOK
  QuietHears
  QuietShows
PROPERTIES
  Undisturbed
  ComesToRest
