SPECIFICATION FairSpec
CONSTANTS
  Checks <- MCChecks
  JobIds <- MCJobIds
  MaxRuntime = 1
  MaxNonImproving = 1
  Horizon = 0
  MaxEdits = 0
  MaxEvaluations = 1
  MaxPreviews = 2
  MaxFaults = 1
PROPERTIES PreviewsAreServed
