SPECIFICATION Spec
CONSTANTS
  Invocations = {i1, i2}
  Candidates = {a, b}
  User = User
  MaxRevision = 3
  MaxMoves = 2
SYMMETRY MCSymmetry
INVARIANTS PromotionTypeOK PromotionsAreReversible AuditIsTrue PublishedIsPushed
PROPERTIES NothingIsLost
CHECK_DEADLOCK FALSE
