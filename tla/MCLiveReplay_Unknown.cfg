CONSTANTS
  Names <- MCNames
  Artifacts <- MCArtifacts
  Observations <- MCObservations
  Allowlists <- MCAllowlists
  MAX_SLOW_RETRIES = 3
  MAX_INTERSTITIAL_DISMISSALS = 3
  MaxResumes = 2
  MEMBERS <- MCMEMBERS
  Inputs <- MCInputs
  SlowAttempts = 3
  Drifts <- MCDrifts
SPECIFICATION LiveSpec
INVARIANT UnknownMemberNeverFails
CHECK_DEADLOCK FALSE
