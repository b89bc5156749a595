SPECIFICATION SDKSpec

CONSTANTS
  MaxMessages = 1
  MaxBlocks = 5
  paginate <- ShortPages

INVARIANTS
  ThrowsOnlyIfProcessedTwice
