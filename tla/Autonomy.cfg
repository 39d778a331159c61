SPECIFICATION Spec
CONSTANTS
  Checks <- MCChecks
  JobIds <- MCJobIds
  MaxRuntime = 1
  MaxNonImproving = 1
  Horizon = 1
  MaxEdits = 1
  MaxEvaluations = 2
  MaxPreviews = 0
  MaxFaults = 1
INVARIANTS PlateausEndTheRun
PROPERTIES CandidatesHavePassed
