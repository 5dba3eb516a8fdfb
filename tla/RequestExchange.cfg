SPECIFICATION Spec
CONSTANTS
  Nothing = Nothing
  Calls <- AllCalls
  Repr <- MCRepr
INVARIANTS
  TypeOK
  SameRequestRecognised
  RecognisedIsSameRequest
CHECK_DEADLOCK FALSE
