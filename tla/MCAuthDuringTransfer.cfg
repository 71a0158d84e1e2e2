SPECIFICATION Spec
CONSTANTS
  ClientCommands <- SafetyCommands
INVARIANT YieldIsControlOnly
CHECK_DEADLOCK FALSE
