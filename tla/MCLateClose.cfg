SPECIFICATION Spec
CONSTANTS
  Transfers = {t1, t2}
  SegmentSize = 4
  RegionSegments = 2
  GrowRegions = 1
  MaxReceived = 8
PROPERTY ClosedOnce
CHECK_DEADLOCK FALSE
