SPECIFICATION Spec
CONSTANTS
  Requests = {c1, c2}
  Runs = {r1}
  Docs = {d1, d2}
  AnyDoc = AnyDoc
  Numbered = Numbered
  Lookalike = Lookalike
  MaxCalls = 2
  MaxId = 2
  PageSize = 1
  ScanLimit = 2
  Hybrid = 2
  RerankLimit = 2
  TopK = 2
  MaxExperts = 2
SYMMETRY MCSymmetry
INVARIANTS CitationsAreSupplied
CHECK_DEADLOCK FALSE
