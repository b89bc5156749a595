SPECIFICATION SDKSpec

CONSTANTS
  MaxMessages = 2
  MaxBlocks = 4
  paginate <- ShortPages

PROPERTIES
  StatusOnlyAdvances
  ProcessedIsReported
  BatchIsNoticed

CHECK_DEADLOCK FALSE
