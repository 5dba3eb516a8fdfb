SPECIFICATION FairSpec
CONSTANTS
  Redeemers = {d1, d2}
  Calls = {c1, c2}
  Injected = {shared}
  Settings <- MCSettings
  ClientTimeout = Inf
  Inf = Inf
  NaN = NaN
  MaxReads = 1
  None = None
INVARIANTS
  TypeOK
  InjectedStaysOpen
  EveryOpenClientHasACloser
PROPERTIES
  CallsEnd
  ShutdownClosesAll
CHECK_DEADLOCK FALSE
