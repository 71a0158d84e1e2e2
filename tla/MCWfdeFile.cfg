SPECIFICATION Spec
CONSTANTS
  Transfers = {t1, t2}
  SegmentSize = 4
  RegionSegments = 2
  GrowRegions = 1
  MaxReceived = 8
INVARIANTS
  TypeOK
  EofExact
  BufferFits
  ExcessBounded
  AsciiGrowthIsCut
PROPERTY UploadExact
CHECK_DEADLOCK FALSE
