SPECIFICATION Spec
CONSTANTS
  BUF_SIZE = 1
  Sizes <- MCSizes
  Delays <- MCDelays
  Gains <- MCGains
  Mod = 2
  EndFeeds = TRUE
INVARIANT
  FeedInBuffer
