SPECIFICATION Spec
CONSTANTS
  None = None
  twice = twice
  once = once
  Keys = {k1}
  Workers = {w1, w2}
  Specs = {twice, once}
  AdapterSpecs = {twice, once}
  MaxAttempts <- MCMaxAttempts
  Priority <- MCPriority
  AttemptLimit = 2
  Micros = 2
  LeaseSeconds = 2
  MaxWait = 1
  MaxClaims = 1
  Horizon = 5
SYMMETRY Symmetry
VIEW LiveView
INVARIANTS TypeOK EventLogTellsTheStory
PROPERTIES LateWorkersChangeNothing LeaseErrorIsBounded
