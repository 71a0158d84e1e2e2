SPECIFICATION Spec
CONSTANTS
  Size = 6
  Wrap = 100
  Streams <- ManyStreams
INVARIANT NeverWild
CHECK_DEADLOCK FALSE
