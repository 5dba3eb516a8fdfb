SPECIFICATION RouteSpec
CONSTANTS
  k1 = k1  k2 = k2  r1 = r1  r2 = r2  g1 = g1
  Requests = {r1, r2}
  Grants = {g1}
  Inputs <- MCInputs
  RequiredValues <- NoRequired
  Answers <- MCAnswers
  Times <- InTime
  BadReadings <- NoBadReading
  Verifier <- MCVerifier
  RouteProfile = RouteProfile
  NaN = NaN  BadPath = BadPath
  Unspent = Unspent  Retired = Retired
  Keys = {k1, k2}
  NonAscii = {}
  Unreadable = Unreadable
  None = None
  Held <- MCHeld
  Credentials <- MCCredentials
SYMMETRY Symmetry
INVARIANTS
  RouteTypeOK
  BothControls
PROPERTIES
  CurrentTokenDenialIsFinal
CHECK_DEADLOCK FALSE
