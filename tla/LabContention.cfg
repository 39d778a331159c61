SPECIFICATION Spec
CONSTANTS
  None = None
  twice = twice
  once = once
  Keys = {k1, k2}
  Workers = {w1, w2}
  Specs = {twice, once}
  AdapterSpecs = {twice, once}
  MaxAttempts <- MCMaxAttempts
  Priority <- MCPriority
  AttemptLimit = 2
  Micros = 2
  LeaseSeconds = 1
  MaxWait = 0
  MaxClaims = 1
  Horizon = 2
SYMMETRY Symmetry
VIEW LiveView
INVARIANTS OneActiveAttempt RetryBudget
PROPERTIES ClaimsInOrder ImplementsLedger
