SPECIFICATION Spec
CONSTANTS
  ClientCommands <- TransferOnly
INVARIANT ReplyIntact
CHECK_DEADLOCK FALSE
