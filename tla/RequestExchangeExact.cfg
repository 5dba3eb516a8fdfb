SPECIFICATION Spec
CONSTANTS
  Nothing = Nothing
  Calls <- PortableCalls
  Repr <- MCRepr
INVARIANTS
  ExactRequest
CHECK_DEADLOCK FALSE
