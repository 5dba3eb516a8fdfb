SPECIFICATION Spec
CONSTANTS
  k1 = k1  k2 = k2  k3 = k3
  Keys = {k1, k2, k3}
  NonAscii <- MCNonAscii
  Unreadable = Unreadable
  None = None
  Used <- MCUsed
  Routes <- MCRoutes
SYMMETRY Symmetry
INVARIANTS
  TypeOK
  AcceptedOnTheRankingKey
  InternalTokenOnlyWhereEnabled
PROPERTIES
  InternalIgnoresPublic
