CONSTANTS
  Names <- MCNames
  Artifacts = {}
  Observations <- MCObservations
  Allowlists <- MCAllowlists
  MAX_SLOW_RETRIES = 3
  MAX_INTERSTITIAL_DISMISSALS = 3
  MaxResumes = 0
  MEMBERS <- MCMEMBERS
  Inputs <- MCInputs
  SlowAttempts = 3
  Drifts <- MCDrifts
  Jobs <- MCJobs
  Decisions <- MCDecisions
  Words <- MCWords
  Strip <- MCStrip
  MAX_STEPS = 4
  Earlier <- MCEarlier
  Masks <- MCMasks
SPECIFICATION TripSpec
INVARIANT SuccessDeclaresOutput
CHECK_DEADLOCK FALSE
