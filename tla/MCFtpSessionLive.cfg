SPECIFICATION FairSpec
CONSTANTS
  ClientCommands <- TransferOnly
PROPERTIES
  ControlEnds
  ClosedTransferEnds
CHECK_DEADLOCK FALSE
