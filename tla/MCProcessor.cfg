SPECIFICATION Spec
CONSTANTS
  fromHeight = 5
  chunkSize = 2
  HeightModulus = 64
  None = None
  MaxHeight = 8
  MaxFaults = 1
  Traffic <- MCTraffic
CHECK_DEADLOCK FALSE
INVARIANTS NoMessageIsSkipped NoEventIsLost ProofsAreOfCommittedRoots
PROPERTY MessagesGetProcessed
