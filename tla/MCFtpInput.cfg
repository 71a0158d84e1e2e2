SPECIFICATION Spec
CONSTANTS
  Size = 6
  Wrap = 100
  Streams <- ManyStreams
INVARIANTS
  TypeOK
  CommandsAreLines
  NothingHeldBack
  RoomToRead
  WrapsOnlyInTerminator
CHECK_DEADLOCK FALSE
