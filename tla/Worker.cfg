SPECIFICATION FairSpec
CONSTANTS
  None = None
  twice = twice
  once = once
  Keys = {k1}
  Workers = {w1, w2}
  Specs = {twice, once}
  AdapterSpecs = {twice, once}
  MaxAttempts <- MCMaxAttempts
  MaxLate = 2
  MaxCrashes = 2
INVARIANTS LedgerIsTrue
PROPERTIES LifecycleAsDrawn EveryJobEnds
