SPECIFICATION Spec
CONSTANTS
  r1 = r1  r2 = r2  r3 = r3  g1 = g1  g2 = g2
  Requests = {r1, r2, r3}
  Grants = {g1, g2}
  Inputs <- ValidInputs
  RequiredValues <- NoRequired
  Answers <- RaceAnswers
  Times <- InTime
  BadReadings <- NoBadReading
  Verifier <- MCVerifier
  RouteProfile = RouteProfile
  NaN = NaN  BadPath = BadPath
  Unspent = Unspent  Retired = Retired
SYMMETRY Symmetry
INVARIANTS
  TypeOK
  RunsOnItsOwnRedemption
PROPERTIES
  KeepsSingleUse
CHECK_DEADLOCK FALSE
