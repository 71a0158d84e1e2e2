SPECIFICATION Spec
CONSTANTS
  ClientCommands <- SafetyCommands
INVARIANTS
  TypeOK
  TransferConsistent
  PasvUsable
  Interruptible
  AbortInScope
  ProtHonoured
PROPERTY ImplementsService
CHECK_DEADLOCK FALSE
