SPECIFICATION FairSpec
CONSTANTS
  r1 = r1  r2 = r2  r3 = r3  g1 = g1  g2 = g2
  Requests = {r1}
  Grants = {g1, g2}
  Inputs <- AllInputs
  RequiredValues <- MCRequired
  Answers <- AllAnswers
  Times <- MCTimes
  BadReadings <- NaNReading
  Verifier <- MCVerifier
  RouteProfile = RouteProfile
  NaN = NaN  BadPath = BadPath
  Unspent = Unspent  Retired = Retired
INVARIANTS
  SpentGrantsAreExact
  LocalRefusalSpendsNothing
PROPERTIES
  RedeemOnlyWhileValid
  DenialIsFinal
  OnlyAwaitsMayLast
CHECK_DEADLOCK FALSE
