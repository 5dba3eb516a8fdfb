SPECIFICATION FairSpec
CONSTANTS
  Modes = {"url", "fallback", "off"}
  Kinds = {"lease", "activity"}
  TTLs <- MCTTLs
  Intervals <- MCIntervals
  None = None
  Timeout = 10
  MaxMisses = 1
  DEFAULT_LEASE_TTL_SECONDS = 60
  DEFAULT_HEARTBEAT_INTERVAL_SECONDS = 10
INVARIANTS
  TypeOK
  KeepsItsLease
  HeldIsRecorded
PROPERTIES
  ReleaseIsFinal
  KeepsLease
  OrphanExpires
